---- MODULE Spec2Model ----
(***************************************************************************)
(* Verification model of the Detooz backend (backend/app): guardian        *)
(* linking by OTP, the reputation blacklist with its cache, the cold       *)
(* storage archiver, scan persistence and the guardian alert lifecycle.    *)
(*                                                                         *)
(* The relational store is modelled as sets of row records, one variable   *)
(* per table.  Every request handler is one action that runs the whole     *)
(* handler (queries, checks, writes, commit) and records its response in   *)
(* the variable `last`.  Each subsystem has its own specification so that  *)
(* the tables it does not touch stay constant.                             *)
(***************************************************************************)
EXTENDS Integers, Sequences, FiniteSets, TLC

VARIABLES
    links,          \* table guardian_links
    nextLinkId,     \* next primary key of guardian_links
    consumed,       \* history: <<protected, code>> consumed by a successful verify and not issued again since
    everConsumed,   \* history: <<protected, code>> ever consumed by a successful verify
    blacklist,      \* table blacklist
    redis,          \* contents of the Redis server, key -> value
    fallback,       \* InMemoryCache._cache of the client's fallback
    using_fallback, \* RedisClient.using_fallback
    written,        \* history: blacklist keys written since start
    scans,          \* table scans
    nextScanId,     \* next primary key of scans
    files,          \* files of the local archive directory, filename -> content
    provider,       \* STORAGE_PROVIDER chosen at start
    foreign_keys,   \* what the database does with ON DELETE CASCADE: "off" on the
                    \* default SQLite engine, "cascade" on PostgreSQL
    archived,       \* history: ids of the scans the archiver deleted
    alerts,         \* table guardian_alerts
    nextAlertId,    \* next primary key of guardian_alerts
    settings,       \* table user_settings: user -> alert_guardians_threshold
    trusted,        \* table trusted_senders
    nextTrustedId,  \* next primary key of trusted_senders
    inflight,       \* requests being served: worker -> the handler's position and locals
    groq_cache,     \* scam_detector._groq_cache, in insertion order
    now,            \* wall clock
    last            \* the request completed by the last step and its response

linkVars == <<links, nextLinkId, consumed, everConsumed>>
blVars == <<blacklist, redis, fallback, using_fallback, written>>
scanVars == <<scans, nextScanId>>
archVars == <<files, provider, foreign_keys, archived>>
alertVars == <<alerts, nextAlertId, settings>>
procVars == <<trusted, nextTrustedId, inflight, groq_cache>>
vars == <<linkVars, blVars, scanVars, archVars, alertVars, procVars, now, last>>

(***************************************************************************)
(* Bounds of the model                                                     *)
(***************************************************************************)
MaxLinks == 2
MaxNow == 20

\* NULL of an integer column
None == -1

\* three accounts are what a chain needs: a guardian, a protected user, a third party
Users == {1, 2, 3}
\* the e-mail address of user u is modelled by u; NoSuchEmail belongs to nobody
NoSuchEmail == None
Emails == Users \cup {NoSuchEmail}
\* 6-digit codes drawn by generate_otp; two values are enough to let a code repeat
Codes == {"111111", "222222"}
NoCode == "none"

(***************************************************************************)
(* Guardian linking (routers/guardian_link.py)                             *)
(***************************************************************************)
OtpTtlMinutes == 10
\* the clock advances one OTP lifetime at a time: a code is still accepted at the
\* instant it expires and refused one step later
TickMinutes == OtpTtlMinutes

\* a response: the operation, the user it is about (the caller, or for verify_otp
\* the protected user named by user_email), the code, the HTTP status, the outcome
NoResponse == [op |-> "none", target |-> None, code |-> NoCode,
               status |-> 0, detail |-> "none"]

Response(op, target, code, status, detail) ==
    [op |-> op, target |-> target, code |-> code,
     status |-> status, detail |-> detail]

\* rows in which user u is the guardian of somebody (active)
IsProtectingOthers_never(u) == FALSE

IsProtectingOthers(u) ==
    \E l \in links : l.guardian_id = u /\ l.status = "active"

\* rows in which user u is protected by somebody (active)
HasGuardians(u) ==
    \E l \in links : l.user_id = u /\ l.status = "active"

PendingLinks(u) == {l \in links : l.user_id = u /\ l.status = "pending"}

NewPendingLink_noExpiry(id, u, code, expires) ==
    [id |-> id, user_id |-> u, guardian_id |-> None, guardian_account_id |-> None,
     otp_code |-> code, otp_expires_at |-> None, status |-> "pending",
     issued_at |-> now]

\* issued_at is history: the instant the code in otp_code was generated, None when
\* the row holds no code
NewPendingLink(id, u, code, expires) ==
    [id |-> id, user_id |-> u, guardian_id |-> None, guardian_account_id |-> None,
     otp_code |-> code, otp_expires_at |-> expires, status |-> "pending",
     issued_at |-> now]

\* the write-only timestamps created_at and verified_at are not part of the rows
ActivateLink_keepsPending(l, g) ==
    [l EXCEPT !.guardian_id = g]

ActivateLink(l, g) ==
    [l EXCEPT !.guardian_id = g, !.status = "active",
              !.otp_code = NoCode, !.otp_expires_at = None, !.issued_at = None]

generate_link_otp(u, code) ==
    LET expires == now + OtpTtlMinutes
        pend == PendingLinks(u)
    IN  /\ UNCHANGED <<procVars, everConsumed, blVars, scanVars, archVars, alertVars, now>>
        /\ IF IsProtectingOthers(u)
           THEN /\ last' = Response("generate_otp", u, code, 400, "is_guardian")
                /\ UNCHANGED <<links, nextLinkId, consumed>>
           ELSE IF Cardinality(pend) > 1
           THEN \* scalar_one_or_none raises MultipleResultsFound
                /\ last' = Response("generate_otp", u, code, 500, "multiple_rows")
                /\ UNCHANGED <<links, nextLinkId, consumed>>
           ELSE IF pend # {}
           THEN LET l == CHOOSE x \in pend : TRUE
                IN  /\ links' = (links \ {l}) \cup
                                {[l EXCEPT !.otp_code = code, !.otp_expires_at = expires,
                                            !.issued_at = now]}
                    /\ consumed' = consumed \ {<<u, code>>}
                    /\ last' = Response("generate_otp", u, code, 200, "ok")
                    /\ UNCHANGED nextLinkId
           ELSE /\ nextLinkId <= MaxLinks
                /\ links' = links \cup {NewPendingLink(nextLinkId, u, code, expires)}
                /\ nextLinkId' = nextLinkId + 1
                /\ consumed' = consumed \ {<<u, code>>}
                /\ last' = Response("generate_otp", u, code, 200, "ok")

revoke_guardian_link(u, link_id) ==
    LET found == {l \in links : l.id = link_id /\ (l.user_id = u \/ l.guardian_id = u)}
    IN  /\ UNCHANGED <<procVars, nextLinkId, consumed, everConsumed, blVars, scanVars, archVars,
                       alertVars, now>>
        /\ IF found = {}
           THEN /\ last' = Response("revoke", u, NoCode, 404, "not_found")
                /\ UNCHANGED links
           ELSE /\ links' = links \ found
                /\ last' = Response("revoke", u, NoCode, 200, "ok")

\* a refusal that also discards the target's pending codes
verify_rejected_dropsPending(email, code, status, detail) ==
    /\ last' = Response("verify_otp", email, code, status, detail)
    /\ links' = {l \in links : ~(l.status = "pending" /\ l.user_id = email)}
    /\ UNCHANGED <<consumed, everConsumed>>

\* every refusal is an HTTPException raised before the first write of the handler
verify_rejected(email, code, status, detail) ==
    /\ last' = Response("verify_otp", email, code, status, detail)
    /\ UNCHANGED <<links, consumed, everConsumed>>

verify_otp_and_link(g, email, code) ==
    LET match == {l \in links : l.user_id = email /\ l.otp_code = code
                                  /\ l.status = "pending"}
        fail(status, detail) == verify_rejected(email, code, status, detail)
    IN  /\ UNCHANGED <<procVars, nextLinkId, blVars, scanVars, archVars, alertVars, now>>
        /\ IF g = email THEN fail(400, "self")
           ELSE IF email \notin Users THEN fail(404, "user_not_found")
           ELSE IF HasGuardians(g) THEN fail(400, "guardian_is_protected")
           ELSE IF IsProtectingOthers(email) THEN fail(400, "chain")
           ELSE IF Cardinality(match) > 1 THEN fail(500, "multiple_rows")
           ELSE IF match = {} THEN fail(400, "invalid_otp")
           ELSE LET l == CHOOSE x \in match : TRUE
                IN  IF l.otp_expires_at # None /\ now > l.otp_expires_at
                    THEN fail(400, "expired")
                    ELSE /\ links' = (links \ {l}) \cup {ActivateLink(l, g)}
                         /\ consumed' = consumed \cup {<<email, code>>}
                         /\ everConsumed' = everConsumed \cup {<<email, code>>}
                         /\ last' = Response("verify_otp", email, code, 200, "ok")

Tick ==
    /\ now + TickMinutes <= MaxNow
    /\ now' = now + TickMinutes
    /\ last' = NoResponse
    /\ UNCHANGED <<procVars, linkVars, blVars, scanVars, archVars, alertVars>>

\* the requests that can be in service at once, and a worker without one
Workers == {1, 2}
Idle == [pc |-> "idle"]
Serving(w, rec) == inflight' = [inflight EXCEPT ![w] = rec]

InitProc ==
    /\ trusted = {}
    /\ nextTrustedId = 1
    /\ inflight = [w \in Workers |-> Idle]
    /\ groq_cache = <<>>

InitOther ==
    /\ blacklist = {}
    /\ redis = <<>>
    /\ fallback = <<>>
    /\ using_fallback = FALSE
    /\ written = {}
    /\ scans = {}
    /\ nextScanId = 1
    /\ files = <<>>
    /\ provider = "LOCAL"
    /\ foreign_keys = "off"
    /\ archived = {}
    /\ alerts = {}
    /\ nextAlertId = 1
    /\ settings = [u \in Users |-> "HIGH"]
    /\ InitProc

Init ==
    /\ links = {}
    /\ nextLinkId = 1
    /\ consumed = {}
    /\ everConsumed = {}
    /\ now = 0
    /\ last = NoResponse
    /\ InitOther

GenerateOtp == \E u \in Users, c \in Codes : generate_link_otp(u, c)
VerifyOtp == \E g \in Users, e \in Emails, c \in Codes : verify_otp_and_link(g, e, c)
Revoke == \E u \in Users, id \in 1..MaxLinks : revoke_guardian_link(u, id)

\* the linking protocol, one completed call at a time, at a fixed instant
NextLink ==
    \/ GenerateOtp
    \/ VerifyOtp
    \/ Revoke

SpecLink == Init /\ [][NextLink]_vars

\* the linking protocol with the clock running
NextLinkTimed ==
    \/ GenerateOtp
    \/ VerifyOtp
    \/ Revoke
    \/ Tick

SpecLinkTimed == Init /\ [][NextLinkTimed]_vars

\* two users who generate one code, three who verify, with the clock running
ExpiryUsers == {1, 2}
ExpiryGenerate == \E u \in ExpiryUsers : generate_link_otp(u, "111111")
ExpiryVerify ==
    \E g \in Users, e \in ExpiryUsers \cup {NoSuchEmail}, c \in Codes :
        verify_otp_and_link(g, e, c)

NextExpiry ==
    \/ ExpiryGenerate
    \/ ExpiryVerify
    \/ Tick

SpecExpiry == Init /\ [][NextExpiry]_vars

ActiveLinks == {l \in links : l.status = "active"}

(***************************************************************************)
(* Reputation blacklist and its cache                                      *)
(* (routers/reputation.py, services/blacklist_manager.py,                  *)
(*  core/redis_client.py)                                                  *)
(* Strings are sequences of one-character strings.                         *)
(***************************************************************************)
MaxReports == 2

Digits == {"0", "1", "2", "3", "4", "5", "6", "7", "8", "9"}
Whitespace == {" "}

LowerChar(c) ==
    CASE c = "A" -> "a" [] c = "B" -> "b" [] c = "H" -> "h" [] c = "I" -> "i"
      [] c = "O" -> "o" [] c = "P" -> "p" [] c = "S" -> "s" [] c = "T" -> "t"
      [] c = "X" -> "x" [] OTHER -> c

\* str.lower()
Lower(str) == [i \in 1..Len(str) |-> LowerChar(str[i])]

RECURSIVE LStrip(_)
LStrip(str) ==
    IF str # <<>> /\ Head(str) \in Whitespace THEN LStrip(Tail(str)) ELSE str

RECURSIVE RStrip(_)
RStrip(str) ==
    IF str # <<>> /\ str[Len(str)] \in Whitespace
    THEN RStrip(SubSeq(str, 1, Len(str) - 1)) ELSE str

\* str.strip()
Strip(str) == RStrip(LStrip(str))

\* str.startswith(prefix)
StartsWith(str, prefix) ==
    /\ Len(str) >= Len(prefix)
    /\ SubSeq(str, 1, Len(prefix)) = prefix

DropPrefix(str, prefix) == SubSeq(str, Len(prefix) + 1, Len(str))

\* re.sub(r'^https?://', '', value)
StripScheme(str) ==
    IF StartsWith(str, <<"h", "t", "t", "p", "s", ":", "/", "/">>)
    THEN DropPrefix(str, <<"h", "t", "t", "p", "s", ":", "/", "/">>)
    ELSE IF StartsWith(str, <<"h", "t", "t", "p", ":", "/", "/">>)
    THEN DropPrefix(str, <<"h", "t", "t", "p", ":", "/", "/">>)
    ELSE str

\* re.sub(r'/$', '', value): one trailing slash
StripTrailingSlash(str) ==
    IF str # <<>> /\ str[Len(str)] = "/" THEN SubSeq(str, 1, Len(str) - 1) ELSE str

\* re.sub(r'[^\d+]', '', value)
KeepDigitsAndPlus(str) == SelectSeq(str, LAMBDA c : c \in Digits \cup {"+"})

\* digits[-10:]
LastTen(str) == IF Len(str) <= 10 THEN str ELSE SubSeq(str, Len(str) - 9, Len(str))

normalize_phone_value(value) ==
    LET digits == KeepDigitsAndPlus(value)
    IN  IF StartsWith(digits, <<"+">>) THEN digits
        ELSE IF StartsWith(digits, <<"9", "1">>) /\ Len(digits) = 12
        THEN <<"+">> \o digits
        ELSE <<"+", "9", "1">> \o LastTen(digits)

normalize_url_value(value) == StripTrailingSlash(StripScheme(Strip(Lower(value))))

Contains(str, c) == \E i \in 1..Len(str) : str[i] = c

RECURSIVE UpToSlash(_)
\* str.split('/')[0]
UpToSlash(str) ==
    IF str = <<>> \/ Head(str) = "/" THEN <<>>
    ELSE <<Head(str)>> \o UpToSlash(Tail(str))

\* urlparse(u).netloc or urlparse(u).path.split('/')[0], for u with an http(s)://
\* scheme or with no scheme at all
NetlocOrFirstSegment(u) ==
    IF StartsWith(u, <<"h", "t", "t", "p", "s", ":", "/", "/">>)
       \/ StartsWith(u, <<"h", "t", "t", "p", ":", "/", "/">>)
    THEN UpToSlash(StripScheme(u))
    ELSE UpToSlash(u)

normalize_domain_value(value) ==
    LET v == Strip(Lower(value))
    IN  IF ~Contains(v, "/") THEN v
        ELSE IF StartsWith(v, <<"h", "t", "t", "p">>) THEN NetlocOrFirstSegment(v)
        ELSE NetlocOrFirstSegment(<<"h", "t", "t", "p", ":", "/", "/">> \o v)

\* reputation.normalize_value and BlacklistManager.normalize_value: the same text for
\* the types phone, url and domain
normalize_value(value, value_type) ==
    IF value_type = "phone" THEN normalize_phone_value(value)
    ELSE IF value_type = "url" THEN normalize_url_value(value)
    ELSE IF value_type = "domain" THEN normalize_domain_value(value)
    ELSE Strip(Lower(value))

\* SHA-256 of the normalized value: injective for every input of the model
compute_hash(value) == <<"sha256", value>>

\* Redis key "bl:<hash>"
CacheKey(value_hash) == <<"bl", value_hash>>

ValidTypes == {"url", "phone", "domain"}

\* raw inputs of report, auto-blacklist and check: <<type, value>>
RawInputs ==
    { <<"url", <<"h", "t", "t", "p", ":", "/", "/", "a", ".", "i", "o", "/">> >>,
      <<"url", <<"A", ".", "i", "o">> >>,
      <<"phone", <<"9", "8", "7", "6", "5", "4", "3", "2", "1", "0">> >>,
      <<"phone", <<"+", "9", "1", " ", "9", "8", "7", "6", "5", "4", "3", "2", "1", "0">> >>,
      <<"text", <<"h", "i">> >> }

EntryKey(e) == <<e.type, e.value_hash>>

Entries(value_hash, value_type) ==
    {e \in blacklist : e.value_hash = value_hash /\ e.type = value_type}

\* a row of the table; first_reported_at and last_reported_at take the column
\* default utcnow at the insert.  The table has no unique constraint: two rows may
\* differ in id alone.
EntryRow(id, value_type, normalized, value_hash, source, reports_count) ==
    [id |-> id, type |-> value_type, value |-> normalized, value_hash |-> value_hash,
     source |-> source, reports_count |-> reports_count, is_verified |-> FALSE,
     first_reported_at |-> now, last_reported_at |-> now]

\* the primary key the database gives the next row
RECURSIVE MaxId(_)
MaxId(rows) ==
    IF rows = {} THEN 0
    ELSE LET r == CHOOSE x \in rows : TRUE
             m == MaxId(rows \ {r})
         IN  IF r.id > m THEN r.id ELSE m
NextEntryId == MaxId(blacklist) + 1

NewEntry_zeroCount(value_type, normalized, value_hash, source) ==
    EntryRow(NextEntryId, value_type, normalized, value_hash, source, 0)

NewEntry(value_type, normalized, value_hash, source) ==
    EntryRow(NextEntryId, value_type, normalized, value_hash, source, 1)

Reported_keepsCount(e) ==
    [e EXCEPT !.last_reported_at = now]

\* existing.reports_count += 1; existing.last_reported_at = utcnow()
Reported(e) ==
    [e EXCEPT !.reports_count = @ + 1, !.last_reported_at = now]

\* key: the type and hash looked up or written; type, value: the request as sent;
\* store_read: the handler queried the blacklist table
BlResponse(op, key, value_type, value, status, is_blacklisted, reports_count, store_read) ==
    [op |-> op, key |-> key, type |-> value_type, value |-> value, status |-> status,
     is_blacklisted |-> is_blacklisted, reports_count |-> reports_count,
     store_read |-> store_read]

\* dict-like helpers for the two cache stores
Put(store, k, v) == [x \in DOMAIN store \cup {k} |-> IF x = k THEN v ELSE store[x]]
Drop(store, k) == [x \in DOMAIN store \ {k} |-> store[x]]

\* RedisClient.get: the fallback answers when the client runs on the fallback or the
\* Redis call raises RedisError (err)
CacheGet(k, err) ==
    IF using_fallback \/ err
    THEN IF k \in DOMAIN fallback THEN fallback[k] ELSE <<>>
    ELSE IF k \in DOMAIN redis THEN redis[k] ELSE <<>>

\* RedisClient.setex
CacheSetex(k, v, err) ==
    IF using_fallback \/ err
    THEN /\ fallback' = Put(fallback, k, v)
         /\ UNCHANGED redis
    ELSE /\ redis' = Put(redis, k, v)
         /\ UNCHANGED fallback

\* RedisClient.delete
CacheDelete(k, err) ==
    IF using_fallback \/ err
    THEN /\ fallback' = Drop(fallback, k)
         /\ UNCHANGED redis
    ELSE /\ redis' = Drop(redis, k)
         /\ UNCHANGED fallback

\* POST /report
report_scam(value_type, value) ==
    LET normalized == normalize_value(value, value_type)
        value_hash == compute_hash(normalized)
        existing == Entries(value_hash, value_type)
        key == <<value_type, value_hash>>
    IN  /\ UNCHANGED <<procVars, linkVars, scanVars, archVars, alertVars, now,
                       redis, fallback, using_fallback>>
        /\ IF value_type \notin ValidTypes
           THEN /\ last' = BlResponse("report_scam", key, value_type, value, 400, FALSE, 0, FALSE)
                /\ UNCHANGED <<blacklist, written>>
           ELSE IF Cardinality(existing) > 1
           THEN /\ last' = BlResponse("report_scam", key, value_type, value, 500, FALSE, 0, TRUE)
                /\ UNCHANGED <<blacklist, written>>
           ELSE IF existing # {}
           THEN LET e == CHOOSE x \in existing : TRUE
                IN  /\ e.reports_count < MaxReports
                    /\ blacklist' = (blacklist \ {e}) \cup {Reported(e)}
                    /\ written' = written \cup {key}
                    /\ last' = BlResponse("report_scam", key, value_type, value, 200, TRUE,
                                          e.reports_count + 1, TRUE)
           ELSE /\ blacklist' = blacklist \cup
                                {NewEntry(value_type, normalized, value_hash, "community")}
                /\ written' = written \cup {key}
                /\ last' = BlResponse("report_scam", key, value_type, value, 200, TRUE, 1, TRUE)

\* the mapped columns of the Blacklist class
BlacklistColumns ==
    {"id", "type", "value", "value_hash", "source", "reports_count",
     "first_reported_at", "last_reported_at", "is_verified"}

Null == "NULL"

\* the values auto_blacklist hands to the Blacklist constructor for the training
\* columns, from its keyword arguments
TrainingKeywords(kwargs) ==
    [full_message |-> IF kwargs.user_consented THEN kwargs.full_message ELSE Null,
     ai_reasoning |-> IF kwargs.user_consented THEN kwargs.ai_reasoning ELSE Null,
     scam_type |-> kwargs.scam_type,
     confidence_score |-> kwargs.confidence,
     language |-> kwargs.language,
     features_detected |-> IF kwargs.user_consented THEN kwargs.features ELSE Null]

\* the response of auto_blacklist, with the consent flag of the call and the training
\* values it prepared
AutoResponse(key, value_type, value, status, added, reports_count, store_read, kwargs) ==
    [op |-> "auto_blacklist", key |-> key, type |-> value_type, value |-> value,
     status |-> status, is_blacklisted |-> added, reports_count |-> reports_count,
     store_read |-> store_read, user_consented |-> kwargs.user_consented,
     training |-> TrainingKeywords(kwargs)]

\* BlacklistManager.auto_blacklist(value, content_type, source, db, **kwargs).  For a
\* value with no entry it calls Blacklist(...) with the keywords full_message,
\* ai_reasoning, scam_type, confidence_score, language and features_detected, none of
\* which is a column of the class: the declarative constructor raises TypeError, so
\* nothing is inserted and the cache delete after the insert is not reached.
auto_blacklist(value_type, value, kwargs) ==
    LET normalized == normalize_value(value, value_type)
        value_hash == compute_hash(normalized)
        existing == Entries(value_hash, value_type)
        key == <<value_type, value_hash>>
    IN  /\ UNCHANGED <<procVars, linkVars, scanVars, archVars, alertVars, now, using_fallback>>
        /\ IF value_type \notin ValidTypes
           THEN /\ last' = AutoResponse(key, value_type, value, 200, FALSE, 0, FALSE, kwargs)
                /\ UNCHANGED <<blacklist, written, redis, fallback>>
           ELSE IF Cardinality(existing) > 1
           THEN /\ last' = AutoResponse(key, value_type, value, 500, FALSE, 0, TRUE, kwargs)
                /\ UNCHANGED <<blacklist, written, redis, fallback>>
           ELSE IF existing # {}
           THEN LET e == CHOOSE x \in existing : TRUE
                IN  /\ e.reports_count < MaxReports
                    /\ blacklist' = (blacklist \ {e}) \cup {Reported(e)}
                    /\ written' = written \cup {key}
                    /\ last' = AutoResponse(key, value_type, value, 200, FALSE,
                                            e.reports_count + 1, TRUE, kwargs)
                    /\ UNCHANGED <<redis, fallback>>
           ELSE IF DOMAIN TrainingKeywords(kwargs) \subseteq BlacklistColumns
           THEN /\ blacklist' = blacklist \cup
                                {NewEntry(value_type, normalized, value_hash, "ai_auto")}
                /\ written' = written \cup {key}
                /\ CacheDelete(CacheKey(value_hash), FALSE)
                /\ last' = AutoResponse(key, value_type, value, 200, TRUE, 1, TRUE, kwargs)
           ELSE /\ last' = AutoResponse(key, value_type, value, 500, FALSE, 0, TRUE, kwargs)
                /\ UNCHANGED <<blacklist, written, redis, fallback>>

\* the dict check_blacklist builds from the store
StoreResult(value_hash, value_type) ==
    LET found == Entries(value_hash, value_type)
    IN  IF found # {}
        THEN LET e == CHOOSE x \in found : TRUE
             IN  [is_blacklisted |-> TRUE, reports_count |-> e.reports_count,
                  is_verified |-> e.is_verified]
        ELSE [is_blacklisted |-> FALSE, reports_count |-> 0, is_verified |-> FALSE]

\* the attributes of the entry check_blacklist reads to build that dict
ResultAttributes == {"reports_count", "scam_type", "confidence_score", "is_verified"}

\* BlacklistManager.check_blacklist; errGet, errSet: the Redis GET, SETEX raise.
\* When the store holds the entry the handler reads entry.scam_type and
\* entry.confidence_score, which the Blacklist class does not have: AttributeError,
\* before anything is cached.
\* The cached JSON text is modelled by the dict it encodes (booleans and integers
\* survive json.dumps / json.loads unchanged).
check_blacklist(value_type, value, errGet, errSet) ==
    LET normalized == normalize_value(value, value_type)
        value_hash == compute_hash(normalized)
        key == <<value_type, value_hash>>
        cached == CacheGet(CacheKey(value_hash), errGet)
    IN  /\ UNCHANGED <<procVars, linkVars, scanVars, archVars, alertVars, now, using_fallback,
                       blacklist, written>>
        /\ IF value_type \notin ValidTypes
           THEN /\ last' = BlResponse("check_blacklist", key, value_type, value, 200,
                                      FALSE, 0, FALSE)
                /\ UNCHANGED <<redis, fallback>>
           ELSE IF cached # <<>>
           THEN /\ last' = BlResponse("check_blacklist", key, value_type, value, 200,
                                      cached.is_blacklisted, cached.reports_count,
                                      FALSE)
                /\ UNCHANGED <<redis, fallback>>
           ELSE IF Cardinality(Entries(value_hash, value_type)) > 1
           THEN /\ last' = BlResponse("check_blacklist", key, value_type, value, 500,
                                      FALSE, 0, TRUE)
                /\ UNCHANGED <<redis, fallback>>
           ELSE IF /\ Entries(value_hash, value_type) # {}
                   /\ ~(ResultAttributes \subseteq BlacklistColumns)
           THEN /\ last' = BlResponse("check_blacklist", key, value_type, value, 500,
                                      FALSE, 0, TRUE)
                /\ UNCHANGED <<redis, fallback>>
           ELSE LET res == StoreResult(value_hash, value_type)
                IN  /\ CacheSetex(CacheKey(value_hash), res, errSet)
                    /\ last' = BlResponse("check_blacklist", key, value_type, value, 200,
                                          res.is_blacklisted, res.reports_count,
                                          TRUE)

\* a cache entry reaches its TTL (3600 s) and is gone from the store that held it
cache_expire(k) ==
    /\ k \in DOMAIN redis \cup DOMAIN fallback
    /\ redis' = Drop(redis, k)
    /\ fallback' = Drop(fallback, k)
    /\ last' = NoResponse
    /\ UNCHANGED <<procVars, linkVars, scanVars, archVars, alertVars, now, using_fallback,
                   blacklist, written>>

InitBlacklist ==
    /\ InitProc
    /\ links = {}
    /\ nextLinkId = 1
    /\ consumed = {}
    /\ everConsumed = {}
    /\ now = 0
    /\ last = NoResponse
    /\ blacklist = {}
    /\ redis = <<>>
    /\ fallback = <<>>
    /\ using_fallback \in BOOLEAN
    /\ written = {}
    /\ scans = {}
    /\ nextScanId = 1
    /\ files = <<>>
    /\ provider = "LOCAL"
    /\ foreign_keys = "off"
    /\ archived = {}
    /\ alerts = {}
    /\ nextAlertId = 1
    /\ settings = [u \in Users |-> "HIGH"]

ReportScam == \E r \in RawInputs : report_scam(r[1], r[2])
\* the keyword arguments auto_blacklist_from_message passes on
KwargsInputs ==
    {[full_message |-> "msg", ai_reasoning |-> "why", scam_type |-> "phishing",
      confidence |-> 90, user_consented |-> c, features |-> "entities",
      language |-> "en"] : c \in BOOLEAN}
AutoBlacklist == \E r \in RawInputs, k \in KwargsInputs : auto_blacklist(r[1], r[2], k)
CheckBlacklist ==
    \E r \in RawInputs, errGet \in BOOLEAN, errSet \in BOOLEAN :
        check_blacklist(r[1], r[2], errGet, errSet)
CacheExpire == \E k \in DOMAIN redis \cup DOMAIN fallback : cache_expire(k)

NextBlacklist ==
    \/ ReportScam
    \/ AutoBlacklist
    \/ CheckBlacklist
    \/ CacheExpire

SpecBlacklist == InitBlacklist /\ [][NextBlacklist]_vars

(***************************************************************************)
(* Scans and the cold-storage archiver                                     *)
(* (routers/sms.py, services/archiver.py)                                  *)
(***************************************************************************)
MaxScans == 2
MaxArchiveNow == 2
MaxKeep == 1

Levels == {"HIGH", "MEDIUM", "LOW"}
Senders == {"+910000000000", "AD-HDFCBK"}
\* message bodies, as strings of characters
Messages == { <<"h", "i">> }
\* NULL of the Text column scans.message: no string of characters equals it
NoMessage == <<"NULL">>

NewScan(id, u, sender, message, level, blocked, t) ==
    [id |-> id, user_id |-> u, sender |-> sender, message |-> message,
     risk_level |-> level, is_blocked |-> blocked, guardian_alerted |-> FALSE,
     created_at |-> t]

ScanResponse(op, u, scan_id, level, status) ==
    [op |-> op, user |-> u, scan_id |-> scan_id, risk_level |-> level, status |-> status]

\* the sender has a scan of this user flagged is_blocked
SenderBlocked(u, sender) ==
    \E s \in scans : s.user_id = u /\ s.sender = sender /\ s.is_blocked

\* the background task analyze_sms schedules: the name send_guardian_alerts is bound,
\* when the handler runs, to the helper defined at the end of routers/sms.py.  It reads
\* the legacy guardians table and fails with NameError (alert_service is undefined in
\* that module) before it writes anything; the exception is caught and printed.  It
\* leaves the scans as they are and creates no guardian alert.
sms_send_guardian_alerts(rows, u, scan_id) == rows

\* POST /api/sms/analyze; level is the verdict of ScamDetector.analyze
analyze_sms(u, sender, message, level) ==
    /\ nextScanId <= MaxScans
    /\ nextScanId' = nextScanId + 1
    /\ UNCHANGED <<procVars, linkVars, blVars, archVars, alertVars, now>>
    /\ IF SenderBlocked(u, sender)
       THEN /\ scans' = scans \cup
                        {NewScan(nextScanId, u, sender, message, "HIGH", TRUE, now)}
            /\ last' = ScanResponse("analyze_sms", u, nextScanId, "HIGH", 200)
       ELSE LET rows == scans \cup
                        {NewScan(nextScanId, u, sender, message, level, FALSE, now)}
            IN  /\ scans' = IF level = "HIGH"
                            THEN sms_send_guardian_alerts(rows, u, nextScanId)
                            ELSE rows
                /\ last' = ScanResponse("analyze_sms", u, nextScanId, level, 200)

\* the clock of the archiver, one tick at a time
archive_tick ==
    /\ now < MaxArchiveNow
    /\ now' = now + 1
    /\ last' = NoResponse
    /\ UNCHANGED <<procVars, linkVars, blVars, scanVars, archVars, alertVars>>

RECURSIVE SortById(_)
\* the rows of a select, in primary-key order
SortById(rows) ==
    IF rows = {} THEN <<>>
    ELSE LET m == CHOOSE x \in rows : \A y \in rows : x.id <= y.id
         IN  <<m>> \o SortById(rows \ {m})

\* one JSON line of the archive file
ArchiveRecord(s) ==
    [id |-> s.id, user_id |-> s.user_id, sender |-> s.sender, message |-> s.message,
     risk_level |-> s.risk_level, created_at |-> s.created_at]

ArchiveLines_dropsFirst(sel) ==
    LET rows == SortById(sel)
    IN  [i \in 1..(Len(rows) - 1) |-> ArchiveRecord(rows[i + 1])]

\* "\n".join(lines)
ArchiveLines(sel) ==
    LET rows == SortById(sel)
    IN  [i \in 1..Len(rows) |-> ArchiveRecord(rows[i])]

\* outcomes of StorageProvider.save: written; open() raised; open() truncated the
\* file and write() raised
SaveOutcomes == {"ok", "fail_open", "fail_write"}
DeleteOutcomes == {"ok", "fail"}

\* LocalStorage.save opens the path with mode 'w'; S3Storage.save is a stub that
\* logs, stores nothing and never raises
FilesAfterSave(filename, content, save) ==
    IF provider = "S3" THEN files
    ELSE IF save = "ok" THEN Put(files, filename, content)
    ELSE IF save = "fail_write" THEN Put(files, filename, <<>>)
    ELSE files

SaveReturned(save) == provider = "S3" \/ save = "ok"

RowsAfterArchive_deletesAnyway(sel, save, del) ==
    IF del = "ok" THEN scans \ sel ELSE scans

\* the rows left by steps 2 and 3 of archive_old_scans
RowsAfterArchive(sel, save, del) ==
    IF SaveReturned(save) /\ del = "ok" THEN scans \ sel ELSE scans

ArchiveResult_errorOnDelete(save, del) ==
    IF ~SaveReturned(save) THEN "error"
    ELSE IF del = "fail" THEN "error"
    ELSE "ok"

\* the kind of dict archive_old_scans returns
ArchiveResult(save, del) ==
    IF ~SaveReturned(save) THEN "error"
    ELSE IF del = "fail" THEN "warning"
    ELSE "ok"

ArchiveResponse(result, cutoff, filename, path, content, count, save, del) ==
    [op |-> "archive", result |-> result, cutoff |-> cutoff, filename |-> filename,
     path |-> path, content |-> content, archived_count |-> count,
     save |-> save, del |-> del]

\* ArchiverService.archive_old_scans; days_to_keep in clock ticks
\* the guardian_alerts rows after a SQL DELETE of the scans gone: scan_id is declared
\* ON DELETE CASCADE, which PostgreSQL applies and SQLite, opened without
\* PRAGMA foreign_keys, ignores
AlertsAfterDelete(gone) ==
    IF foreign_keys = "cascade"
    THEN {a \in alerts : a.scan_id \notin {s.id : s \in gone}}
    ELSE alerts

archive_old_scans(days_to_keep, save, del) ==
    LET cutoff == now - days_to_keep
        sel == {s \in scans : s.created_at < cutoff}
        content == ArchiveLines(sel)
        filename == <<"scans", now>>
        result == ArchiveResult(save, del)
        path == IF result \in {"ok", "warning"} THEN <<provider, filename>> ELSE <<>>
    IN  /\ UNCHANGED <<procVars, linkVars, blVars, nextAlertId, settings, now, nextScanId,
                       provider, foreign_keys>>
        /\ IF sel = {}
           THEN /\ last' = ArchiveResponse("empty", cutoff, <<>>, <<>>, <<>>, 0, "none", "none")
                /\ UNCHANGED <<scans, files, archived, alerts>>
           ELSE /\ files' = FilesAfterSave(filename, content, save)
                /\ scans' = RowsAfterArchive(sel, save, del)
                /\ alerts' = AlertsAfterDelete(scans \ scans')
                /\ archived' = archived \cup {s.id : s \in scans \ scans'}
                /\ last' = ArchiveResponse(result, cutoff, filename, path, content,
                                           IF result = "ok" THEN Cardinality(sel) ELSE 0,
                                           IF SaveReturned(save) THEN "ok" ELSE save,
                                           IF SaveReturned(save) THEN del ELSE "none")

InitArchive ==
    /\ InitProc
    /\ links = {}
    /\ nextLinkId = 1
    /\ consumed = {}
    /\ everConsumed = {}
    /\ now = 0
    /\ last = NoResponse
    /\ blacklist = {}
    /\ redis = <<>>
    /\ fallback = <<>>
    /\ using_fallback = FALSE
    /\ written = {}
    /\ scans = {}
    /\ nextScanId = 1
    /\ files = <<>>
    /\ provider \in {"LOCAL", "S3"}
    /\ foreign_keys = "off"
    /\ archived = {}
    /\ alerts = {}
    /\ nextAlertId = 1
    /\ settings = [u \in Users |-> "HIGH"]

ArchiveSubmit ==
    \E level \in {"HIGH", "LOW"} : analyze_sms(1, "+910000000000", <<"h", "i">>, level)
ArchiveRun ==
    \E k \in 0..MaxKeep, save \in SaveOutcomes, del \in DeleteOutcomes :
        archive_old_scans(k, save, del)

NextArchive ==
    \/ ArchiveSubmit
    \/ ArchiveRun
    \/ archive_tick

SpecArchive == InitArchive /\ [][NextArchive]_vars

(***************************************************************************)
(* The other handlers that persist scans                                   *)
(* (routers/sms.py, routers/scan.py, routers/manual_scan.py)               *)
(***************************************************************************)
MaxBatch == 2

\* "[Blocked sender]"
BlockedPlaceholder ==
    <<"[", "B", "l", "o", "c", "k", "e", "d", " ", "s", "e", "n", "d", "e", "r", "]">>

\* the rows a batch adds: one scan per message, in order, ids from nextScanId
BatchScans(u, batch) ==
    {NewScan(nextScanId + i - 1, u, batch[i][1], batch[i][2], batch[i][3], FALSE, now) :
        i \in 1..Len(batch)}

\* POST /api/sms/analyze-batch; batch[i] = <<sender, message, verdict of the detector>>
analyze_sms_batch(u, batch) ==
    /\ Len(batch) <= 50
    /\ nextScanId + Len(batch) - 1 <= MaxScans
    /\ scans' = scans \cup BatchScans(u, batch)
    /\ nextScanId' = nextScanId + Len(batch)
    /\ last' = ScanResponse("analyze_sms_batch", u, nextScanId + Len(batch) - 1,
                            batch[Len(batch)][3], 200)
    /\ UNCHANGED <<procVars, linkVars, blVars, archVars, alertVars, now>>

\* POST /api/scan/analyze: the scan is committed; the HIGH branch then uses the name
\* background_tasks, which the handler does not define, and the request ends in 500
analyze_message(u, sender, message, level) ==
    /\ nextScanId <= MaxScans
    /\ scans' = scans \cup {NewScan(nextScanId, u, sender, message, level, FALSE, now)}
    /\ nextScanId' = nextScanId + 1
    /\ last' = ScanResponse("analyze_message", u, nextScanId, level,
                            IF level = "HIGH" THEN 500 ELSE 200)
    /\ UNCHANGED <<procVars, linkVars, blVars, archVars, alertVars, now>>

\* UrlScraperService.normalize_phone
normalize_phone(phone) ==
    LET digits == KeepDigitsAndPlus(phone)
    IN  IF StartsWith(digits, <<"+", "9", "1">>) THEN digits
        ELSE IF StartsWith(digits, <<"9", "1">>) /\ Len(digits) = 12
        THEN <<"+">> \o digits
        ELSE IF Len(digits) = 10 THEN <<"+", "9", "1">> \o digits
        ELSE digits

\* manual_scan.check_reputation: is the content on the blacklist
manual_check_reputation(content, content_type) ==
    IF content_type \notin {"url", "phone"} THEN FALSE
    ELSE LET normalized == IF content_type = "phone" THEN normalize_phone(content)
                           ELSE StripScheme(Strip(Lower(content)))
         IN  Entries(compute_hash(normalized), content_type) # {}

\* the level manual_scan persists; verdict is the answer of the URL analysis or of the
\* detector
ManualLevel(content_type, blacklisted, verdict) ==
    LET base == IF content_type = "url" THEN verdict
                ELSE IF content_type = "phone"
                THEN (IF blacklisted THEN "HIGH" ELSE "LOW")
                ELSE verdict
    IN  IF blacklisted /\ base = "LOW" THEN "MEDIUM" ELSE base

\* ManualScanResult, with the request's content_type and content
ManualScanResponse(u, scan_id, level, status, content_type, raw, blacklisted) ==
    [op |-> "manual_scan", user |-> u, scan_id |-> scan_id, risk_level |-> level,
     status |-> status, type |-> content_type, value |-> raw,
     is_blacklisted |-> blacklisted]

ManualSender(content_type) ==
    CASE content_type = "url" -> "Manual:url"
      [] content_type = "phone" -> "Manual:phone"
      [] OTHER -> "Manual:text"

\* POST /api/manual/scan with an explicit content_type
manual_scan(u, content_type, raw, verdict) ==
    LET content == Strip(raw)
        blacklisted == manual_check_reputation(content, content_type)
        level == ManualLevel(content_type, blacklisted, verdict)
    IN  /\ UNCHANGED <<procVars, linkVars, blVars, archVars, alertVars, now>>
        /\ IF content = <<>>
           THEN /\ last' = ManualScanResponse(u, None, "none", 400, content_type, raw, FALSE)
                /\ UNCHANGED scanVars
           ELSE /\ nextScanId <= MaxScans
                /\ scans' = scans \cup {NewScan(nextScanId, u, ManualSender(content_type),
                                                content, level, FALSE, now)}
                /\ nextScanId' = nextScanId + 1
                /\ last' = ManualScanResponse(u, nextScanId, level, 200, content_type, raw,
                                            blacklisted)

\* POST /api/sms/block/{sender}
block_sender(u, sender) ==
    LET mine == {s \in scans : s.user_id = u /\ s.sender = sender}
    IN  /\ last' = ScanResponse("block_sender", u, None, "none", 200)
        /\ UNCHANGED <<procVars, linkVars, blVars, archVars, alertVars, now>>
        /\ IF mine # {}
           THEN /\ scans' = (scans \ mine) \cup {[s EXCEPT !.is_blocked = TRUE] : s \in mine}
                /\ UNCHANGED nextScanId
           ELSE /\ nextScanId <= MaxScans
                /\ scans' = scans \cup {NewScan(nextScanId, u, sender, BlockedPlaceholder,
                                                "HIGH", TRUE, now)}
                /\ nextScanId' = nextScanId + 1

ScanSenders == {"AD-HDFCBK"}
ManualInputs ==
    { <<"phone", <<"9", "8", "7", "6", "5", "4", "3", "2", "1", "0">> >>,
      <<"text", <<"h", "i">> >>,
      <<"text", <<" ">> >> }

ScanAnalyzeSms ==
    \E sender \in ScanSenders, m \in Messages, level \in Levels :
        analyze_sms(1, sender, m, level)
ScanAnalyzeBatch ==
    \E n \in 1..MaxBatch :
        \E batch \in [1..n -> ScanSenders \X Messages \X Levels] :
            analyze_sms_batch(1, batch)
ScanAnalyzeMessage ==
    \E sender \in ScanSenders, m \in Messages, level \in Levels :
        analyze_message(1, sender, m, level)
ScanManual ==
    \E r \in ManualInputs, verdict \in Levels : manual_scan(1, r[1], r[2], verdict)
ScanBlock == \E sender \in ScanSenders : block_sender(1, sender)
ScanReport == report_scam("phone", <<"9", "8", "7", "6", "5", "4", "3", "2", "1", "0">>)

NextScan ==
    \/ ScanAnalyzeSms
    \/ ScanAnalyzeBatch
    \/ ScanAnalyzeMessage
    \/ ScanManual
    \/ ScanBlock
    \/ ScanReport

SpecScan == Init /\ [][NextScan]_vars

(***************************************************************************)
(* Guardian alerts                                                         *)
(* (services/guardian_alert_service.py, routers/guardian_alerts.py,        *)
(*  routers/user.py)                                                       *)
(***************************************************************************)
MaxAlerts == 2

Thresholds == {"HIGH", "MEDIUM", "ALL"}
GuardianAccounts == {1}
Actions == {"contacted_user", "dismissed"}
Notes == {"called"}
NoAction == "none"

AlertResponse(op, u, scan_id, alert_id, level, created, status) ==
    [op |-> op, user |-> u, scan_id |-> scan_id, alert_id |-> alert_id,
     risk_level |-> level, alerts_created |-> created, status |-> status]

\* PUT /api/user/settings with alert_guardians_threshold
update_user_settings(u, threshold) ==
    /\ UNCHANGED <<procVars, linkVars, blVars, scanVars, archVars, alerts, nextAlertId, now>>
    /\ IF threshold \notin {"HIGH", "MEDIUM", "ALL"}
       THEN /\ last' = AlertResponse("update_settings", u, None, None, "none", 0, 400)
            /\ UNCHANGED settings
       ELSE /\ settings' = [settings EXCEPT ![u] = threshold]
            /\ last' = AlertResponse("update_settings", u, None, None, "none", 0, 200)

_should_alert(risk_level, threshold) ==
    IF threshold = "HIGH" THEN risk_level = "HIGH"
    ELSE IF threshold = "MEDIUM" THEN risk_level \in {"HIGH", "MEDIUM"}
    ELSE IF threshold = "ALL" THEN TRUE
    ELSE risk_level = "HIGH"

NewAlert(id, account, u, scan_id) ==
    [id |-> id, guardian_account_id |-> account, user_id |-> u, scan_id |-> scan_id,
     status |-> "pending", action_taken |-> NoAction, action_notes |-> "none",
     seen_at |-> None, actioned_at |-> None]

\* the links create_alerts_for_scan writes an alert for
AlertableLinks(u) ==
    {l \in links : l.user_id = u /\ l.status = "active" /\ l.guardian_account_id # None}

\* guardian_alert_service.send_guardian_alerts(db, user, scan, result), which runs
\* GuardianAlertService.create_alerts_for_scan.  No handler under src/ calls it
\* (routers/sms.py imports the name and then rebinds it to its own helper); it is the
\* entry of the fan-out.
send_guardian_alerts(u, scan_id) ==
    LET scan == CHOOSE s \in scans : s.id = scan_id
        targets == IF _should_alert(scan.risk_level, settings[u])
                   THEN SortById(AlertableLinks(u)) ELSE <<>>
        n == Len(targets)
    IN  /\ \E s \in scans : s.id = scan_id
        /\ nextAlertId + n - 1 <= MaxAlerts
        /\ alerts' = alerts \cup
                     {NewAlert(nextAlertId + i - 1, targets[i].guardian_account_id,
                               u, scan_id) : i \in 1..n}
        /\ nextAlertId' = nextAlertId + n
        /\ scans' = IF n > 0
                    THEN (scans \ {scan}) \cup {[scan EXCEPT !.guardian_alerted = TRUE]}
                    ELSE scans
        /\ last' = AlertResponse("send_guardian_alerts", u, scan_id, None,
                                 scan.risk_level, n, 200)
        /\ UNCHANGED <<procVars, linkVars, blVars, archVars, settings, nextScanId, now>>

\* NotificationService.notify_guardians(scan, db), the other writer of guardian_alerted.
\* It counts every active link of the scan's owner as sent and commits the flag; it
\* adds no GuardianAlert.  routers/scan.py names it for a background task, through a
\* background_tasks the handler does not have, so the model offers it as the service
\* entry it is.
notify_guardians(scan_id) ==
    LET scan == CHOOSE s \in scans : s.id = scan_id
        targets == {l \in links : l.user_id = scan.user_id /\ l.status = "active"}
        sent_count == IF scan.risk_level = "HIGH" THEN Cardinality(targets) ELSE 0
    IN  /\ \E s \in scans : s.id = scan_id
        /\ scans' = IF sent_count > 0
                    THEN (scans \ {scan}) \cup {[scan EXCEPT !.guardian_alerted = TRUE]}
                    ELSE scans
        /\ last' = AlertResponse("notify_guardians", scan.user_id, scan_id, None,
                                 scan.risk_level, sent_count, 200)
        /\ UNCHANGED <<procVars, linkVars, blVars, archVars, alertVars, nextScanId, now>>

AlertOf(alert_id, guardian_id) ==
    {a \in alerts : a.id = alert_id /\ a.guardian_account_id = guardian_id}

\* a seen handler that stamps whatever status the alert has
MarkSeen_always(a) ==
    [a EXCEPT !.status = "seen", !.seen_at = now]

\* a seen handler that stamps again an alert already seen
MarkSeen_restamps(a) ==
    IF a.status \in {"pending", "seen"}
    THEN [a EXCEPT !.status = "seen", !.seen_at = now]
    ELSE a

\* the row mark_alert_seen leaves: only a pending alert is touched
MarkSeen(a) ==
    IF a.status = "pending"
    THEN [a EXCEPT !.status = "seen", !.seen_at = now]
    ELSE a

\* POST /api/guardian/alerts/{alert_id}/seen
mark_alert_seen(alert_id, guardian_id) ==
    /\ UNCHANGED <<procVars, linkVars, blVars, scanVars, archVars, nextAlertId, settings, now>>
    /\ IF AlertOf(alert_id, guardian_id) = {}
       THEN /\ last' = AlertResponse("mark_seen", guardian_id, None, alert_id, "none", 0, 404)
            /\ UNCHANGED alerts
       ELSE LET a == CHOOSE x \in AlertOf(alert_id, guardian_id) : TRUE
            IN  /\ alerts' = (alerts \ {a}) \cup {MarkSeen(a)}
                /\ last' = AlertResponse("mark_seen", guardian_id, a.scan_id, alert_id,
                                         "none", 0, 200)

\* POST /api/guardian/alerts/{alert_id}/action
take_action_on_alert(alert_id, guardian_id, action, notes) ==
    /\ UNCHANGED <<procVars, linkVars, blVars, scanVars, archVars, nextAlertId, settings, now>>
    /\ IF AlertOf(alert_id, guardian_id) = {}
       THEN /\ last' = AlertResponse("action", guardian_id, None, alert_id, "none", 0, 404)
            /\ UNCHANGED alerts
       ELSE LET a == CHOOSE x \in AlertOf(alert_id, guardian_id) : TRUE
            IN  /\ alerts' = (alerts \ {a}) \cup
                             {[a EXCEPT !.status = "actioned", !.action_taken = action,
                                        !.action_notes = notes, !.actioned_at = now,
                                        !.seen_at = IF a.seen_at = None THEN now
                                                    ELSE a.seen_at]}
                /\ last' = AlertResponse("action", guardian_id, a.scan_id, alert_id,
                                         "none", 0, 200)

\* a link row of the guardian_accounts schema (models.py: guardian_links has the
\* column guardian_account_id): protected user 1, guardian account 1
AccountLink ==
    [id |-> 1, user_id |-> 1, guardian_id |-> None, guardian_account_id |-> 1,
     otp_code |-> NoCode, otp_expires_at |-> None, status |-> "active",
     issued_at |-> None]

InitAlert ==
    /\ links \in {{}, {AccountLink}}
    /\ nextLinkId = 2
    /\ consumed = {}
    /\ everConsumed = {}
    /\ now = 0
    /\ last = NoResponse
    /\ InitOther

AlertUsers == {1}

AlertGenerateOtp == generate_link_otp(1, "111111")
AlertVerifyOtp == verify_otp_and_link(3, 1, "111111")
AlertAnalyzeSms ==
    \E u \in AlertUsers, m \in Messages, level \in Levels :
        analyze_sms(u, "AD-HDFCBK", m, level)
AlertSettings == \E u \in AlertUsers, t \in Thresholds : update_user_settings(u, t)
AlertFanOut == \E s \in scans : send_guardian_alerts(s.user_id, s.id)
AlertSeen ==
    \E id \in 1..MaxAlerts, g \in GuardianAccounts : mark_alert_seen(id, g)
AlertAction ==
    \E id \in 1..MaxAlerts, g \in GuardianAccounts, action \in Actions, notes \in Notes :
        take_action_on_alert(id, g, action, notes)

NextAlert ==
    \/ AlertGenerateOtp
    \/ AlertVerifyOtp
    \/ AlertAnalyzeSms
    \/ AlertSettings
    \/ AlertFanOut
    \/ AlertSeen
    \/ AlertAction

SpecAlert == InitAlert /\ [][NextAlert]_vars

\* the two writers of guardian_alerted side by side
AlertNotify == \E s \in scans : notify_guardians(s.id)

NextNotify ==
    \/ AlertAnalyzeSms
    \/ AlertSettings
    \/ AlertFanOut
    \/ AlertNotify

SpecNotify == InitAlert /\ [][NextNotify]_vars

\* the life of an alert with the clock running; the action field of the request is a
\* free string, one of the documented values or not
ActionInputs == {"dismissed", "call_police"}
PollSubmit == analyze_sms(1, "+910000000000", <<"h", "i">>, "HIGH")
\* one scan, whose fan-out is delivered at most twice
LifeDeliveries == 2
LifeSubmit == scans = {} /\ PollSubmit
LifeFanOut == Cardinality(alerts) < LifeDeliveries /\ AlertFanOut
LifeSeen == \E id \in 1..LifeDeliveries : mark_alert_seen(id, 1)
LifeAction ==
    \E id \in 1..LifeDeliveries, action \in ActionInputs :
        take_action_on_alert(id, 1, action, "called")

NextLifecycle ==
    \/ LifeSubmit
    \/ LifeFanOut
    \/ LifeSeen
    \/ LifeAction
    \/ archive_tick

SpecLifecycle == InitAlert /\ [][NextLifecycle]_vars

(***************************************************************************)
(* The guardian's poll, and the two ways a scan row leaves the table       *)
(***************************************************************************)

\* the ids get_pending_alerts returns for a guardian account: its alerts that are
\* pending or seen and whose user and scan rows the handler finds (every user of the
\* model has a row).  The order of the list, created_at descending, is left out.
PendingPoll(guardian_id) ==
    {a.id : a \in {x \in alerts : /\ x.guardian_account_id = guardian_id
                                  /\ x.status \in {"pending", "seen"}
                                  /\ \E s \in scans : s.id = x.scan_id}}

PollResponse(guardian_id, status, ids) ==
    [op |-> "get_pending_alerts", guardian |-> guardian_id, status |-> status,
     alerts |-> ids]

\* GET /api/guardian/alerts/pending
get_pending_alerts(guardian_id) ==
    /\ last' = IF guardian_id \notin GuardianAccounts
               THEN PollResponse(guardian_id, 404, {})
               ELSE PollResponse(guardian_id, 200, PendingPoll(guardian_id))
    /\ UNCHANGED <<procVars, linkVars, blVars, scanVars, archVars, alertVars, now>>

\* DELETE /api/scan/{scan_id}.  db.delete(scan) goes through the ORM: flushing it sets
\* scan_id of the rows of the backref Scan.guardian_alerts to NULL, the column is NOT
\* NULL, and the commit fails with IntegrityError; a scan no alert references is
\* deleted.
delete_scan(u, scan_id) ==
    LET own == {s \in scans : s.id = scan_id /\ s.user_id = u}
    IN  /\ UNCHANGED <<procVars, linkVars, blVars, archVars, alertVars, nextScanId, now>>
        /\ IF own = {}
           THEN /\ last' = ScanResponse("delete_scan", u, scan_id, "none", 404)
                /\ UNCHANGED scans
           ELSE IF \E a \in alerts : a.scan_id = scan_id
           THEN /\ last' = ScanResponse("delete_scan", u, scan_id, "none", 500)
                /\ UNCHANGED scans
           ELSE /\ last' = ScanResponse("delete_scan", u, scan_id, "none", 200)
                /\ scans' = scans \ own

\* user 1 is linked to guardian account 1; the database is either engine
InitPoll ==
    /\ InitProc
    /\ links = {AccountLink}
    /\ nextLinkId = 2
    /\ consumed = {}
    /\ everConsumed = {}
    /\ now = 0
    /\ last = NoResponse
    /\ blacklist = {}
    /\ redis = <<>>
    /\ fallback = <<>>
    /\ using_fallback = FALSE
    /\ written = {}
    /\ scans = {}
    /\ nextScanId = 1
    /\ files = <<>>
    /\ provider = "LOCAL"
    /\ foreign_keys \in {"off", "cascade"}
    /\ archived = {}
    /\ alerts = {}
    /\ nextAlertId = 1
    /\ settings = [u \in Users |-> "HIGH"]

PollPending == \E g \in GuardianAccounts \cup {2} : get_pending_alerts(g)
PollDelete == \E u \in AlertUsers, id \in 1..MaxScans : delete_scan(u, id)
PollArchive == \E del \in DeleteOutcomes : archive_old_scans(0, "ok", del)
PollAction == \E id \in 1..MaxAlerts : take_action_on_alert(id, 1, "dismissed", "called")

NextPoll ==
    \/ PollSubmit
    \/ AlertFanOut
    \/ AlertSeen
    \/ PollAction
    \/ PollPending
    \/ PollDelete
    \/ PollArchive
    \/ archive_tick

SpecPoll == InitPoll /\ [][NextPoll]_vars

(***************************************************************************)
(* Reputation lookups and the normalizer on its own                        *)
(* (routers/reputation.py, routers/manual_scan.py)                         *)
(***************************************************************************)
MaxReportNow == 1
MaxPasses == 2

\* GET /api/reputation/check?<value_type>=<value>: reads the table, no cache
check_reputation(value_type, value) ==
    LET normalized == normalize_value(value, value_type)
        value_hash == compute_hash(normalized)
        key == <<value_type, value_hash>>
        found == Entries(value_hash, value_type)
    IN  /\ UNCHANGED <<procVars, linkVars, blVars, scanVars, archVars, alertVars, now>>
        /\ IF value_type \notin ValidTypes \/ value = <<>>
           THEN last' = BlResponse("check_reputation", key, value_type, value, 400,
                                   FALSE, 0, FALSE)
           ELSE IF Cardinality(found) > 1
           THEN last' = BlResponse("check_reputation", key, value_type, value, 500,
                                   FALSE, 0, TRUE)
           ELSE IF found # {}
           THEN LET e == CHOOSE x \in found : TRUE
                IN  last' = BlResponse("check_reputation", key, value_type, value, 200,
                                       TRUE, e.reports_count, TRUE)
           ELSE last' = BlResponse("check_reputation", key, value_type, value, 200,
                                   FALSE, 0, TRUE)

\* the clock between two reports
report_tick ==
    /\ now < MaxReportNow
    /\ now' = now + 1
    /\ last' = NoResponse
    /\ UNCHANGED <<procVars, linkVars, blVars, scanVars, archVars, alertVars>>

ReputationInputs ==
    { <<"url", <<"h", "t", "t", "p", ":", "/", "/", "a", ".", "i", "o", "/">> >>,
      <<"phone", <<"9", "8", "7", "6", "5", "4", "3", "2", "1", "0">> >> }

RepReport == \E r \in ReputationInputs : report_scam(r[1], r[2])
RepAuto == \E r \in ReputationInputs, k \in KwargsInputs : auto_blacklist(r[1], r[2], k)
RepCheck == \E r \in ReputationInputs : check_reputation(r[1], r[2])
RepCheckBlacklist == \E r \in ReputationInputs : check_blacklist(r[1], r[2], FALSE, FALSE)
RepManual == \E r \in ReputationInputs : manual_scan(1, r[1], r[2], "LOW")

\* a store holding reviewed entries: no code under app/ sets is_verified, the rows
\* come from manual review (reputation.py lists them at /verified)
VerifiedEntry(value_type, value) ==
    [EntryRow(IF value_type = "url" THEN 1 ELSE 2, value_type,
              normalize_value(value, value_type),
              compute_hash(normalize_value(value, value_type)), "verified", 1)
        EXCEPT !.is_verified = TRUE]

VerifiedInputs ==
    { <<"url", <<"a", ".", "i", "o">> >>,
      <<"phone", <<"9", "8", "7", "6", "5", "4", "3", "2", "1", "0">> >>,
      <<"text", <<"9", "8", "7", "6", "5", "4", "3", "2", "1", "0">> >> }

InitVerified ==
    /\ InitProc
    /\ links = {}
    /\ nextLinkId = 1
    /\ consumed = {}
    /\ everConsumed = {}
    /\ now = 0
    /\ last = NoResponse
    /\ blacklist \in SUBSET {VerifiedEntry(r[1], r[2]) :
                                r \in {x \in VerifiedInputs : x[1] \in ValidTypes}}
    /\ redis = <<>>
    /\ fallback = <<>>
    /\ using_fallback = FALSE
    /\ written = {}
    /\ scans = {}
    /\ nextScanId = 1
    /\ files = <<>>
    /\ provider = "LOCAL"
    /\ foreign_keys = "off"
    /\ archived = {}
    /\ alerts = {}
    /\ nextAlertId = 1
    /\ settings = [u \in Users |-> "HIGH"]

VerifiedManual ==
    \E r \in VerifiedInputs, verdict \in Levels : manual_scan(1, r[1], r[2], verdict)
VerifiedCheck ==
    \E r \in VerifiedInputs : r[1] \in ValidTypes /\ check_reputation(r[1], r[2])

NextVerified ==
    \/ VerifiedManual
    \/ VerifiedCheck

SpecVerified == InitVerified /\ [][NextVerified]_vars

\* reports over time
NextReport ==
    \/ RepReport
    \/ RepAuto
    \/ RepCheck
    \/ report_tick

SpecReport == Init /\ [][NextReport]_vars

\* the three lookup paths after reports
NextLookup ==
    \/ RepReport
    \/ RepCheck
    \/ RepCheckBlacklist
    \/ RepManual

SpecLookup == Init /\ [][NextLookup]_vars

\* the strings the normalizer is run on: an optional scheme or blank, a body, an
\* optional tail
NormalizePrefixes ==
    { <<>>, <<" ">>, <<"h", "t", "t", "p", ":", "/", "/">>,
      <<"H", "T", "T", "P", "S", ":", "/", "/">>, <<"+", "9", "1">>, <<"9", "1">> }
NormalizeBodies ==
    { <<"a", ".", "i", "o">>, <<"A", ".", "i", "o", "/", "x">>,
      <<"9", "8", "7", "6", "5", "4", "3", "2", "1", "0">>,
      <<"9", "8", "7", "6", "5", " ", "4", "3", "2", "1", "0">> }
NormalizeSuffixes == { <<>>, <<"/">>, <<"/", "/">>, <<" ">> }
NormalizeInputs ==
    {p \o b \o t : p \in NormalizePrefixes, b \in NormalizeBodies, t \in NormalizeSuffixes}

NormalizeResponse(value_type, value, passes) ==
    [op |-> "normalize", type |-> value_type, value |-> value, passes |-> passes]

\* the input of normalize_value: passes = 0
InitNormalize ==
    /\ links = {}
    /\ nextLinkId = 1
    /\ consumed = {}
    /\ everConsumed = {}
    /\ now = 0
    /\ InitOther
    /\ \E t \in ValidTypes, x \in NormalizeInputs : last = NormalizeResponse(t, x, 0)

\* one more application of normalize_value to the value in hand
normalize_step ==
    /\ last.op = "normalize"
    /\ last.passes < MaxPasses
    /\ last' = NormalizeResponse(last.type, normalize_value(last.value, last.type),
                                 last.passes + 1)
    /\ UNCHANGED <<procVars, linkVars, blVars, scanVars, archVars, alertVars, now>>

NextNormalize == normalize_step

SpecNormalize == InitNormalize /\ [][NextNormalize]_vars

(***************************************************************************)
(* The detector: check_patterns and ScamDetector.analyze                   *)
(* A message is given by what the pattern tables find in it: the scam      *)
(* types of the HIGH and MEDIUM patterns that match, in table order, and   *)
(* its trailing suffix.  Confidences are in hundredths.                    *)
(***************************************************************************)

Min(a, b) == IF a <= b THEN a ELSE b
Max(a, b) == IF a >= b THEN a ELSE b

Verdict(level, scam_type, confidence) ==
    [risk_level |-> level, scam_type |-> scam_type, confidence |-> confidence]

\* sms_patterns.check_patterns(message, sender): the sender is matched against
\* SAFE_SENDER_PATTERNS and the match is dropped (pass); the suffix of the message is
\* never read
check_patterns(message, sender) ==
    IF message.high # <<>>
    THEN Verdict("HIGH", Head(message.high), Min(85 + Len(message.high) * 3, 99))
    ELSE IF Len(message.medium) >= 3
    THEN Verdict("HIGH", "Multiple Indicators", 75)
    ELSE IF message.medium # <<>>
    THEN Verdict("MEDIUM", Head(message.medium), 50 + Len(message.medium) * 10)
    ELSE Verdict("LOW", Null, 70)

\* ScamDetector._analyze_with_local_model: the label and softmax confidence of the
\* model, or the UNKNOWN verdict of the except branch
LocalOutcomes ==
    {[kind |-> "fail", risk_level |-> "UNKNOWN", confidence |-> 0]} \cup
    {[kind |-> "ok", risk_level |-> l, confidence |-> c] :
        l \in {"HIGH", "LOW"}, c \in {80, 95}}

_analyze_with_local_model(local) ==
    IF local.kind = "fail" THEN Verdict("UNKNOWN", Null, 0)
    ELSE Verdict(local.risk_level,
                 IF local.risk_level = "HIGH" THEN "Suspected Scam" ELSE Null,
                 local.confidence)

\* what the remote call can come back with: a transport error, text that is not
\* JSON, or a JSON object; Null stands for a risk_level the object lacks, and
\* conf_is says whether its confidence is a number, text float() refuses, or absent
RemoteOutcomes ==
    {[kind |-> "transport", risk_level |-> Null, conf_is |-> "missing", confidence |-> 0],
     [kind |-> "not_json", risk_level |-> Null, conf_is |-> "missing", confidence |-> 0]}
    \cup
    {[kind |-> "json", risk_level |-> l, conf_is |-> "number", confidence |-> c] :
        l \in {"HIGH", "MEDIUM", "LOW", "SAFE", Null}, c \in {80, 150}}
    \cup
    {[kind |-> "json", risk_level |-> l, conf_is |-> k, confidence |-> 0] :
        l \in {"HIGH", "MEDIUM", "LOW", "SAFE", Null}, k \in {"text", "missing"}}

Raised == [raised |-> TRUE]

\* ScamDetector._analyze_with_ai: the verdict, or Raised when the exception is passed on
_analyze_with_ai(remote) ==
    IF remote.kind = "transport" THEN Raised
    ELSE IF remote.kind = "not_json" THEN Verdict("MEDIUM", Null, 50)
    ELSE IF remote.conf_is = "text" THEN Raised
    ELSE Verdict(IF remote.risk_level = Null THEN "LOW" ELSE remote.risk_level,
                 Null,
                 IF remote.conf_is = "missing" THEN 80 ELSE remote.confidence)

\* an early return that asks more of a HIGH pattern verdict
PatternIsConfident_strict(p) ==
    \/ p.risk_level = "HIGH" /\ p.confidence >= 90
    \/ p.risk_level = "LOW" /\ p.confidence >= 90

\* whether the stage is reached: the early return of the pattern verdict, the local
\* model when loaded, the remote model when configured and the local one not confident
PatternIsConfident(p) ==
    \/ p.risk_level = "HIGH" /\ p.confidence >= 85
    \/ p.risk_level = "LOW" /\ p.confidence >= 90

CallsLocal(p, local_model) == ~PatternIsConfident(p) /\ local_model

CallsRemote(p, local_model, local, client) ==
    /\ ~PatternIsConfident(p)
    /\ ~(local_model /\ _analyze_with_local_model(local).confidence > 90)
    /\ client

\* the verdict ScamDetector.analyze returns
AnalyzeVerdict(p, local_model, local, client, remote) ==
    IF PatternIsConfident(p) THEN p
    ELSE IF local_model /\ _analyze_with_local_model(local).confidence > 90
    THEN _analyze_with_local_model(local)
    ELSE IF client
    THEN LET ai_result == _analyze_with_ai(remote)
         IN  IF ai_result = Raised THEN p
             ELSE IF ai_result.risk_level = "HIGH" THEN ai_result
             ELSE IF p.risk_level = "MEDIUM" /\ ai_result.risk_level = "LOW"
             THEN Verdict("MEDIUM", p.scam_type, Max(p.confidence, 50))
             ELSE ai_result
    ELSE p

DetectResponse(message, sender, p, local_model, local, client, remote, v) ==
    [op |-> "analyze", message |-> message, sender |-> sender, pattern |-> p,
     local_model |-> local_model, local |-> local, client |-> client, remote |-> remote,
     called_local |-> CallsLocal(p, local_model),
     called_remote |-> CallsRemote(p, local_model, local, client),
     risk_level |-> v.risk_level, scam_type |-> v.scam_type, confidence |-> v.confidence]

\* ScamDetector.analyze(message, sender)
analyze(message, sender, local_model, local, client, remote) ==
    LET p == check_patterns(message, sender)
    IN  /\ last' = DetectResponse(message, sender, p, local_model, local, client, remote,
                                  AnalyzeVerdict(p, local_model, local, client, remote))
        /\ UNCHANGED <<procVars, linkVars, blVars, scanVars, archVars, alertVars, now>>

\* ScamDetector.analyze_quick(message, sender): the pattern verdict alone
analyze_quick(message, sender) ==
    LET p == check_patterns(message, sender)
    IN  /\ last' = [DetectResponse(message, sender, p, FALSE,
                                   CHOOSE l \in LocalOutcomes : l.kind = "fail", FALSE,
                                   CHOOSE r \in RemoteOutcomes : r.kind = "transport", p)
                       EXCEPT !.op = "analyze_quick"]
        /\ UNCHANGED <<procVars, linkVars, blVars, scanVars, archVars, alertVars, now>>

MaxMatches == 3
Buckets == {"kyc_scam", "loan_scam"}
MediumBuckets == {"urgency"}
Suffixes == {"-P", "-T", "none"}
DetectSenders == {"AD-HDFCBK", "9876543210"}

RECURSIVE SeqsUpTo(_, _)
SeqsUpTo(S, n) ==
    IF n = 0 THEN {<<>>}
    ELSE SeqsUpTo(S, n - 1) \cup
         {Append(q, x) : q \in {t \in SeqsUpTo(S, n - 1) : Len(t) = n - 1}, x \in S}

DetectMessages ==
    {[high |-> h, medium |-> m, suffix |-> x] :
        h \in SeqsUpTo(Buckets, 1), m \in SeqsUpTo(MediumBuckets, MaxMatches),
        x \in Suffixes}

\* a call in hand: the message and sender, whether the detector has a local model
\* and a remote client, and what each of them would answer
DetectRequest(message, sender, local_model, local, client, remote) ==
    [op |-> "request", message |-> message, sender |-> sender,
     local_model |-> local_model, local |-> local, client |-> client, remote |-> remote]

InitDetect ==
    /\ links = {}
    /\ nextLinkId = 1
    /\ consumed = {}
    /\ everConsumed = {}
    /\ now = 0
    /\ InitOther
    /\ \E message \in DetectMessages, sender \in DetectSenders, local_model \in BOOLEAN,
          local \in LocalOutcomes, client \in BOOLEAN, remote \in RemoteOutcomes :
           last = DetectRequest(message, sender, local_model, local, client, remote)

DetectAnalyze ==
    /\ last.op = "request"
    /\ analyze(last.message, last.sender, last.local_model, last.local, last.client,
               last.remote)
DetectQuick ==
    /\ last.op = "request"
    /\ analyze_quick(last.message, last.sender)

NextDetect ==
    \/ DetectAnalyze
    \/ DetectQuick

SpecDetect == InitDetect /\ [][NextDetect]_vars

(***************************************************************************)
(* ConfidenceScoringService._smooth_score                                  *)
(* Raw scores are in hundredths, smoothed scores in two-hundredths, so     *)
(* that the factor 1.5 is exact.                                           *)
(***************************************************************************)

SmoothMargin == 5
RawScores == (0 - SmoothMargin)..(100 + SmoothMargin)

_smooth_score(raw_score) ==
    LET bounded == Max(0, Min(100, raw_score))
    IN  IF bounded <= 10 THEN bounded * 3
        ELSE IF bounded >= 90 THEN 170 + (bounded - 90) * 3
        ELSE bounded * 2

SmoothRequest(x, y) == [op |-> "smooth_request", x |-> x, y |-> y]
SmoothResponse(x, y) ==
    [op |-> "smooth", x |-> x, y |-> y,
     smooth_x |-> _smooth_score(x), smooth_y |-> _smooth_score(y)]

\* two raw scores in hand, the first no larger than the second
InitSmooth ==
    /\ links = {}
    /\ nextLinkId = 1
    /\ consumed = {}
    /\ everConsumed = {}
    /\ now = 0
    /\ InitOther
    /\ \E x \in RawScores, y \in RawScores : x <= y /\ last = SmoothRequest(x, y)

\* _smooth_score applied to both
smooth_both ==
    /\ last.op = "smooth_request"
    /\ last' = SmoothResponse(last.x, last.y)
    /\ UNCHANGED <<procVars, linkVars, blVars, scanVars, archVars, alertVars, now>>

NextSmooth == smooth_both

SpecSmooth == InitSmooth /\ [][NextSmooth]_vars

(***************************************************************************)
(* The cache of remote-model answers (scam_detector._groq_cache)           *)
(* _analyze_with_ai runs _sync_groq_call on a worker thread of             *)
(* asyncio.to_thread; the function takes no lock, so threads interleave    *)
(* between its statements.  groq_cache lists the keys in insertion order.  *)
(***************************************************************************)

\* 1024 in the code; the model fills a cache of two
_GROQ_CACHE_MAX_SIZE == 2
GroqKeys == {"m1", "m2", "m3", "m4"}

InCache(key) == \E i \in 1..Len(groq_cache) : groq_cache[i] = key
Without(cache, key) == SelectSeq(cache, LAMBDA k : k # key)

GroqResponse(key, status) == [op |-> "groq_call", key |-> key, status |-> status]

GroqFrame == UNCHANGED <<linkVars, blVars, scanVars, archVars, alertVars, trusted,
                         nextTrustedId, now>>

\* the cache lookup; on a miss the remote call is made
groq_lookup(w, key) ==
    /\ inflight[w] = Idle
    /\ GroqFrame
    /\ UNCHANGED groq_cache
    /\ IF InCache(key)
       THEN /\ last' = GroqResponse(key, "hit")
            /\ UNCHANGED inflight
       ELSE /\ Serving(w, [pc |-> "groq_call", key |-> key])
            /\ last' = NoResponse

\* the answer is parsed; if len(_groq_cache) >= _GROQ_CACHE_MAX_SIZE
groq_check(w) ==
    /\ inflight[w].pc = "groq_call"
    /\ GroqFrame
    /\ UNCHANGED groq_cache
    /\ Serving(w, [pc |-> IF Len(groq_cache) >= _GROQ_CACHE_MAX_SIZE
                          THEN "groq_pick" ELSE "groq_store",
                   key |-> inflight[w].key])
    /\ last' = NoResponse

\* oldest_key = next(iter(_groq_cache)); StopIteration on an empty dict
groq_pick(w) ==
    /\ inflight[w].pc = "groq_pick"
    /\ GroqFrame
    /\ UNCHANGED groq_cache
    /\ IF groq_cache = <<>>
       THEN /\ Serving(w, Idle)
            /\ last' = GroqResponse(inflight[w].key, "StopIteration")
       ELSE /\ Serving(w, [pc |-> "groq_evict", key |-> inflight[w].key,
                           oldest_key |-> Head(groq_cache)])
            /\ last' = NoResponse

\* del _groq_cache[oldest_key]; KeyError when the key is gone
groq_evict(w) ==
    /\ inflight[w].pc = "groq_evict"
    /\ GroqFrame
    /\ IF InCache(inflight[w].oldest_key)
       THEN /\ groq_cache' = Without(groq_cache, inflight[w].oldest_key)
            /\ Serving(w, [pc |-> "groq_store", key |-> inflight[w].key])
            /\ last' = NoResponse
       ELSE /\ UNCHANGED groq_cache
            /\ Serving(w, Idle)
            /\ last' = GroqResponse(inflight[w].key, "KeyError")

\* _groq_cache[cache_key] = result; return result
groq_store(w) ==
    /\ inflight[w].pc = "groq_store"
    /\ GroqFrame
    /\ groq_cache' = IF InCache(inflight[w].key) THEN groq_cache
                     ELSE Append(groq_cache, inflight[w].key)
    /\ Serving(w, Idle)
    /\ last' = GroqResponse(inflight[w].key, "ok")

\* calls in service at once are for different (text, sender) pairs
GroqLookup == \E w \in Workers, key \in GroqKeys :
    /\ \A v \in Workers : inflight[v] # Idle => inflight[v].key # key
    /\ groq_lookup(w, key)
GroqCheck == \E w \in Workers : groq_check(w)
GroqPick == \E w \in Workers : groq_pick(w)
GroqEvict == \E w \in Workers : groq_evict(w)
GroqStore == \E w \in Workers : groq_store(w)

NextGroq ==
    \/ GroqLookup
    \/ GroqCheck
    \/ GroqPick
    \/ GroqEvict
    \/ GroqStore

SpecGroq == Init /\ [][NextGroq]_vars

(***************************************************************************)
(* The cache client on its own (core/redis_client.py): callers set, read   *)
(* and delete keys while single operations hit a Redis error and are       *)
(* served by the in-memory fallback.  Values are one-element sequences,    *)
(* <<>> is None.  Expiry only removes values and is left out.              *)
(***************************************************************************)

ClientKeys == {"ka", "kb"}
ClientValues == {<<"v1">>, <<"v2">>}

ClientResponse(op, key, value) == [op |-> op, key |-> key, value |-> value]

ClientFrame == UNCHANGED <<procVars, linkVars, scanVars, archVars, alertVars, now,
                           blacklist, written, using_fallback>>

client_get(k, err) ==
    /\ ClientFrame
    /\ UNCHANGED <<redis, fallback>>
    /\ last' = ClientResponse("get", k, CacheGet(k, err))

\* RedisClient.set stores like setex, without a time to live
client_set(k, v, err) ==
    /\ ClientFrame
    /\ CacheSetex(k, v, err)
    /\ last' = ClientResponse("set", k, v)

client_setex(k, v, err) ==
    /\ ClientFrame
    /\ CacheSetex(k, v, err)
    /\ last' = ClientResponse("setex", k, v)

client_delete(k, err) ==
    /\ ClientFrame
    /\ CacheDelete(k, err)
    /\ last' = ClientResponse("delete", k, <<>>)

ClientGet == \E k \in ClientKeys, err \in BOOLEAN : client_get(k, err)
ClientSet == \E k \in ClientKeys, v \in ClientValues, err \in BOOLEAN : client_set(k, v, err)
ClientSetex == \E k \in ClientKeys, v \in ClientValues, err \in BOOLEAN :
    client_setex(k, v, err)
ClientDelete == \E k \in ClientKeys, err \in BOOLEAN : client_delete(k, err)

NextClient ==
    \/ ClientGet
    \/ ClientSet
    \/ ClientSetex
    \/ ClientDelete

SpecClient == InitBlacklist /\ [][NextClient]_vars

(***************************************************************************)
(* The block list (routers/sms.py): a sender is blocked for a user while   *)
(* some scan row of that user and sender has is_blocked set                *)
(***************************************************************************)

BlockResponse(op, u, sender, status) ==
    [op |-> op, user |-> u, sender |-> sender, status |-> status]

\* DELETE /api/sms/block/{sender}
unblock_sender(u, sender) ==
    LET mine == {s \in scans : s.user_id = u /\ s.sender = sender /\ s.is_blocked}
    IN  /\ UNCHANGED <<procVars, linkVars, blVars, archVars, alertVars, nextScanId, now>>
        /\ IF mine = {}
           THEN /\ last' = BlockResponse("unblock_sender", u, sender, 404)
                /\ UNCHANGED scans
           ELSE /\ scans' = (scans \ mine) \cup
                             {[s EXCEPT !.is_blocked = FALSE] : s \in mine}
                /\ last' = BlockResponse("unblock_sender", u, sender, 200)

BlockUsers == {1, 2}
BlockAnalyze == \E u \in BlockUsers, sender \in Senders, level \in {"HIGH", "LOW"} :
    analyze_sms(u, sender, <<"h", "i">>, level)
BlockBlock == \E u \in BlockUsers, sender \in Senders : block_sender(u, sender)
BlockUnblock == \E u \in BlockUsers, sender \in Senders : unblock_sender(u, sender)
BlockDelete == \E u \in BlockUsers, id \in 1..MaxScans : delete_scan(u, id)
BlockArchive == archive_old_scans(0, "ok", "ok")

NextBlock ==
    \/ BlockAnalyze
    \/ BlockBlock
    \/ BlockUnblock
    \/ BlockDelete
    \/ BlockArchive
    \/ archive_tick

SpecBlock == Init /\ [][NextBlock]_vars

(***************************************************************************)
(* Blacklist checks and writes served concurrently                         *)
(* Each handler awaits its select, and a writer awaits its commit; other   *)
(* requests run in between.  The cache calls are synchronous and belong to *)
(* the step that follows the await before them.                            *)
(***************************************************************************)

RaceInputs ==
    { <<"url", <<"a", ".", "i", "o">> >>,
      <<"phone", <<"9", "8", "7", "6", "5", "4", "3", "2", "1", "0">> >> }
RaceKwargs == CHOOSE k \in KwargsInputs : k.user_consented

RequestKey(value_type, value) ==
    <<value_type, compute_hash(normalize_value(value, value_type))>>

\* check_blacklist up to the result of the select: the cache lookup and the query
check_blacklist_read(w, value_type, value) ==
    LET key == RequestKey(value_type, value)
        cached == CacheGet(CacheKey(key[2]), FALSE)
        respond(status, is_blacklisted, reports_count, store_read) ==
            /\ last' = BlResponse("check_blacklist", key, value_type, value, status,
                                  is_blacklisted, reports_count, store_read)
            /\ UNCHANGED inflight
    IN  /\ inflight[w] = Idle
        /\ UNCHANGED <<linkVars, blVars, scanVars, archVars, alertVars, trusted,
                       nextTrustedId, groq_cache, now>>
        /\ IF cached # <<>>
           THEN respond(200, cached.is_blacklisted, cached.reports_count, FALSE)
           ELSE IF Cardinality(Entries(key[2], value_type)) > 1
           THEN respond(500, FALSE, 0, TRUE)
           ELSE IF /\ Entries(key[2], value_type) # {}
                   /\ ~(ResultAttributes \subseteq BlacklistColumns)
           THEN respond(500, FALSE, 0, TRUE)
           ELSE /\ Serving(w, [pc |-> "check_cache", type |-> value_type,
                               value |-> value, key |-> key,
                               res |-> StoreResult(key[2], value_type)])
                /\ last' = NoResponse

\* check_blacklist from the setex to the return
check_blacklist_cache(w) ==
    LET r == inflight[w]
    IN  /\ r.pc = "check_cache"
        /\ Serving(w, Idle)
        /\ CacheSetex(CacheKey(r.key[2]), r.res, FALSE)
        /\ last' = BlResponse("check_blacklist", r.key, r.type, r.value, 200,
                              r.res.is_blacklisted, r.res.reports_count, TRUE)
        /\ UNCHANGED <<linkVars, scanVars, archVars, alertVars, trusted, nextTrustedId,
                       groq_cache, now, using_fallback, blacklist, written>>

\* report_scam (op "report_scam") or auto_blacklist (op "auto_blacklist") up to the
\* result of the select; auto_blacklist with no row found calls the Blacklist
\* constructor, which raises
write_read(w, op, value_type, value) ==
    LET key == RequestKey(value_type, value)
        existing == Entries(key[2], value_type)
        respond(status) ==
            /\ last' = IF op = "report_scam"
                       THEN BlResponse(op, key, value_type, value, status, FALSE, 0, TRUE)
                       ELSE AutoResponse(key, value_type, value, status, FALSE, 0, TRUE,
                                         RaceKwargs)
            /\ UNCHANGED inflight
    IN  /\ inflight[w] = Idle
        /\ UNCHANGED <<linkVars, blVars, scanVars, archVars, alertVars, trusted,
                       nextTrustedId, groq_cache, now>>
        /\ IF Cardinality(existing) > 1 THEN respond(500)
           ELSE IF existing = {} /\ op = "auto_blacklist" THEN respond(500)
           ELSE /\ \A e \in existing : e.reports_count < MaxReports
                /\ Serving(w, [pc |-> "write_commit", op |-> op, type |-> value_type,
                               value |-> value, key |-> key,
                               existing |-> {e.id : e \in existing},
                               reports_count |->
                                   IF existing = {} THEN 0
                                   ELSE (CHOOSE e \in existing : TRUE).reports_count])
                /\ last' = NoResponse

\* the commit and the return: UPDATE blacklist SET reports_count = the value read + 1,
\* last_reported_at WHERE id = the row read, or INSERT of a new row
write_commit(w) ==
    LET r == inflight[w]
        rows == {e \in blacklist : e.id \in r.existing}
        count == r.reports_count + 1
    IN  /\ r.pc = "write_commit"
        /\ Serving(w, Idle)
        /\ blacklist' = IF r.existing = {}
                        THEN blacklist \cup {NewEntry(r.type, normalize_value(r.value, r.type),
                                                      r.key[2], "community")}
                        ELSE (blacklist \ rows) \cup
                             {[e EXCEPT !.reports_count = count,
                                        !.last_reported_at = now] : e \in rows}
        /\ written' = written \cup {r.key}
        /\ last' = IF r.op = "report_scam"
                   THEN BlResponse(r.op, r.key, r.type, r.value, 200, TRUE, count, TRUE)
                   ELSE AutoResponse(r.key, r.type, r.value, 200, FALSE, count, TRUE,
                                     RaceKwargs)
        /\ UNCHANGED <<linkVars, scanVars, archVars, alertVars, trusted, nextTrustedId,
                       groq_cache, now, redis, fallback, using_fallback>>

BlRaceCheck == \E w \in Workers, r \in RaceInputs : check_blacklist_read(w, r[1], r[2])
BlRaceCache == \E w \in Workers : check_blacklist_cache(w)
BlRaceWrite == \E w \in Workers, r \in RaceInputs, op \in {"report_scam", "auto_blacklist"} :
    write_read(w, op, r[1], r[2])
BlRaceCommit == \E w \in Workers : write_commit(w)
BlRaceExpire == \E k \in DOMAIN redis : cache_expire(k)

NextBlRace ==
    \/ BlRaceCheck
    \/ BlRaceCache
    \/ BlRaceWrite
    \/ BlRaceCommit
    \/ BlRaceExpire

SpecBlRace == Init /\ [][NextBlRace]_vars

(***************************************************************************)
(* verify_otp_and_link served concurrently                                 *)
(* The handler reads through its own session (steps 2 to 6 of the code),   *)
(* then writes the row it read at db.commit(); no select locks a row, so   *)
(* other requests run between the two.                                     *)
(***************************************************************************)

\* steps 1 to 6: the refusals, or the pending row found
verify_otp_read(w, g, email, code) ==
    LET match == {l \in links : l.user_id = email /\ l.otp_code = code
                                  /\ l.status = "pending"}
        fail(status, detail) ==
            /\ verify_rejected(email, code, status, detail)
            /\ UNCHANGED inflight
    IN  /\ inflight[w] = Idle
        /\ UNCHANGED <<nextLinkId, blVars, scanVars, archVars, alertVars, trusted,
                       nextTrustedId, groq_cache, now>>
        /\ IF g = email THEN fail(400, "self")
           ELSE IF email \notin Users THEN fail(404, "user_not_found")
           ELSE IF HasGuardians(g) THEN fail(400, "guardian_is_protected")
           ELSE IF IsProtectingOthers(email) THEN fail(400, "chain")
           ELSE IF Cardinality(match) > 1 THEN fail(500, "multiple_rows")
           ELSE IF match = {} THEN fail(400, "invalid_otp")
           ELSE LET l == CHOOSE x \in match : TRUE
                IN  IF l.otp_expires_at # None /\ now > l.otp_expires_at
                    THEN fail(400, "expired")
                    ELSE /\ Serving(w, [pc |-> "verify_commit", guardian |-> g,
                                        email |-> email, code |-> code, link |-> l.id])
                         /\ last' = NoResponse
                         /\ UNCHANGED <<links, consumed, everConsumed>>

\* step 7 and db.commit(): UPDATE guardian_links SET guardian_id, status, verified_at,
\* otp_code, otp_expires_at WHERE id = the row read; a row deleted meanwhile makes
\* the flush raise StaleDataError
verify_otp_commit(w) ==
    LET r == inflight[w]
        rows == {l \in links : l.id = r.link}
    IN  /\ r.pc = "verify_commit"
        /\ Serving(w, Idle)
        /\ UNCHANGED <<nextLinkId, blVars, scanVars, archVars, alertVars, trusted,
                       nextTrustedId, groq_cache, now>>
        /\ IF rows = {}
           THEN verify_rejected(r.email, r.code, 500, "stale_row")
           ELSE /\ links' = (links \ rows) \cup {ActivateLink(l, r.guardian) : l \in rows}
                /\ consumed' = consumed \cup {<<r.email, r.code>>}
                /\ everConsumed' = everConsumed \cup {<<r.email, r.code>>}
                /\ last' = Response("verify_otp", r.email, r.code, 200, "ok")

RaceGenerate == \E u \in Users, c \in Codes : generate_link_otp(u, c)
RaceRead == \E w \in Workers, g \in Users, e \in Emails, c \in Codes :
    verify_otp_read(w, g, e, c)
RaceCommit == \E w \in Workers : verify_otp_commit(w)
RaceRevoke == \E u \in Users, l \in links : revoke_guardian_link(u, l.id)

NextRace ==
    \/ RaceGenerate
    \/ RaceRead
    \/ RaceCommit
    \/ RaceRevoke

SpecRace == Init /\ [][NextRace]_vars

(***************************************************************************)
(* Trusted senders (routers/trusted_sender.py)                             *)
(* The handlers are coroutines, each with a database session of its own:   *)
(* a step runs one of them from one await of the database to the next.     *)
(***************************************************************************)

MaxTrusted == 4
TrustedUsers == {1, 2}

TrustedRows(u, sender) == {t \in trusted : t.user_id = u /\ t.sender = sender}

TrustedResponse(op, u, sender, status, detail) ==
    [op |-> op, user |-> u, sender |-> sender, status |-> status, detail |-> detail]

\* add_trusted_sender up to the insert: the select and scalar_one_or_none
add_trusted_sender_check(w, u, sender) ==
    /\ inflight[w] = Idle
    /\ nextTrustedId <= MaxTrusted
    /\ IF Cardinality(TrustedRows(u, sender)) > 1
       THEN /\ last' = TrustedResponse("add_trusted", u, sender, 500, "MultipleResultsFound")
            /\ UNCHANGED inflight
       ELSE IF TrustedRows(u, sender) # {}
       THEN /\ last' = TrustedResponse("add_trusted", u, sender, 400,
                                       "Sender already trusted")
            /\ UNCHANGED inflight
       ELSE /\ Serving(w, [pc |-> "add_commit", user |-> u, sender |-> sender])
            /\ last' = NoResponse
    /\ UNCHANGED <<linkVars, blVars, scanVars, archVars, alertVars, trusted,
                   nextTrustedId, groq_cache, now>>

\* add_trusted_sender from db.add to the return: the table has no unique
\* constraint on (user_id, sender), so the commit succeeds
add_trusted_sender_commit(w) ==
    /\ inflight[w].pc = "add_commit"
    /\ trusted' = trusted \cup {[id |-> nextTrustedId, user_id |-> inflight[w].user,
                                 sender |-> inflight[w].sender]}
    /\ nextTrustedId' = nextTrustedId + 1
    /\ Serving(w, Idle)
    /\ last' = TrustedResponse("add_trusted", inflight[w].user, inflight[w].sender,
                               200, "ok")
    /\ UNCHANGED <<linkVars, blVars, scanVars, archVars, alertVars, groq_cache, now>>

\* remove_trusted_sender(sender)
remove_trusted_sender(w, u, sender) ==
    /\ inflight[w] = Idle
    /\ IF Cardinality(TrustedRows(u, sender)) > 1
       THEN /\ last' = TrustedResponse("remove_trusted", u, sender, 500,
                                       "MultipleResultsFound")
            /\ UNCHANGED trusted
       ELSE IF TrustedRows(u, sender) = {}
       THEN /\ last' = TrustedResponse("remove_trusted", u, sender, 404,
                                       "Sender not in trusted list")
            /\ UNCHANGED trusted
       ELSE /\ trusted' = trusted \ TrustedRows(u, sender)
            /\ last' = TrustedResponse("remove_trusted", u, sender, 200, "ok")
    /\ UNCHANGED <<linkVars, blVars, scanVars, archVars, alertVars, nextTrustedId,
                   inflight, groq_cache, now>>

TrustedAdd == \E w \in Workers, u \in TrustedUsers, sender \in Senders :
    add_trusted_sender_check(w, u, sender)
TrustedCommit == \E w \in Workers : add_trusted_sender_commit(w)
TrustedRemove == \E w \in Workers, u \in TrustedUsers, sender \in Senders :
    remove_trusted_sender(w, u, sender)

NextTrusted ==
    \/ TrustedAdd
    \/ TrustedCommit
    \/ TrustedRemove

SpecTrusted == Init /\ [][NextTrusted]_vars

(***************************************************************************)
(* ConfidenceScoringService.calibrate_for_risk_level                       *)
(* Confidences are in five-hundredths (0.002), so that 0.05 is 25, a score *)
(* can have a third decimal, and round(x, 2) never meets a tie.            *)
(***************************************************************************)

CalMargin == 4
CalScores == (0 - CalMargin)..(500 + CalMargin)
CalLevels == {"HIGH", "MEDIUM", "LOW", "SAFE"}

\* thresholds.get(raw_risk_level, (0.0, 1.0))
Band(level) ==
    IF level = "HIGH" THEN [min_conf |-> 375, max_conf |-> 500]
    ELSE IF level = "MEDIUM" THEN [min_conf |-> 225, max_conf |-> 370]
    ELSE IF level = "LOW" THEN [min_conf |-> 0, max_conf |-> 220]
    ELSE [min_conf |-> 0, max_conf |-> 500]

\* round(x, 2): the nearest multiple of 0.01
Round2(x) == ((x + 2 + 5 * CalMargin) \div 5) * 5 - 5 * CalMargin

\* a reconciliation that clamps to the nearest edge
Adjusted_clamp(raw_risk_level, raw_confidence) ==
    IF raw_confidence < Band(raw_risk_level).min_conf THEN Band(raw_risk_level).min_conf
    ELSE IF raw_confidence > Band(raw_risk_level).max_conf
    THEN Band(raw_risk_level).max_conf
    ELSE raw_confidence

\* the local variable adjusted of calibrate_for_risk_level
Adjusted(raw_risk_level, raw_confidence) ==
    IF raw_confidence < Band(raw_risk_level).min_conf
    THEN Band(raw_risk_level).min_conf + 25
    ELSE IF raw_confidence > Band(raw_risk_level).max_conf
    THEN Band(raw_risk_level).max_conf
    ELSE raw_confidence

CalRequest(raw_risk_level, raw_confidence) ==
    [op |-> "calibrate_request", raw_risk_level |-> raw_risk_level,
     raw_confidence |-> raw_confidence]

\* the dict calibrate_for_risk_level returns, with its arguments
calibrate_for_risk_level(raw_risk_level, raw_confidence) ==
    [op |-> "calibrate", raw_risk_level |-> raw_risk_level,
     raw_confidence |-> raw_confidence,
     risk_level |-> raw_risk_level,
     confidence |-> Round2(Adjusted(raw_risk_level, raw_confidence)),
     adjusted |-> raw_confidence # Adjusted(raw_risk_level, raw_confidence)]

InitCalibrate ==
    /\ links = {}
    /\ nextLinkId = 1
    /\ consumed = {}
    /\ everConsumed = {}
    /\ now = 0
    /\ InitOther
    /\ \E l \in CalLevels, c \in CalScores : last = CalRequest(l, c)

calibrate ==
    /\ last.op = "calibrate_request"
    /\ last' = calibrate_for_risk_level(last.raw_risk_level, last.raw_confidence)
    /\ UNCHANGED <<procVars, linkVars, blVars, scanVars, archVars, alertVars, now>>

NextCalibrate == calibrate

SpecCalibrate == InitCalibrate /\ [][NextCalibrate]_vars

\* C1 (as stated): once verify_otp has succeeded with a code of protected user A,
\* every later verify_otp presenting that code for A fails and changes no link.
C1_Original ==
    [][(last'.op = "verify_otp" /\ <<last'.target, last'.code>> \in everConsumed)
        => (last'.status # 200 /\ links' = links)]_vars

\* C1 (amended): once verify_otp has succeeded with a code of protected user A,
\* every later verify_otp presenting that code for A fails with an error status
\* and changes no link, until a later generate_otp of A issues the same code again.
C1_SingleUse ==
    [][(last'.op = "verify_otp" /\ <<last'.target, last'.code>> \in consumed)
        => (last'.status \in {400, 404} /\ links' = links)]_vars

\* a consumed code was presented again and rejected as invalid
C1_Witness ==
    /\ last.op = "verify_otp"
    /\ <<last.target, last.code>> \in consumed
    /\ last.detail = "invalid_otp"
    /\ \E l \in ActiveLinks : l.user_id = last.target

\* C2: no user is the protected user of one active link and the guardian of
\* another active link.
C2_Bipartite ==
    \A a \in ActiveLinks, b \in ActiveLinks : a.user_id # b.guardian_id

\* a chain was attempted on a store that holds an active link, and refused
C2_Witness ==
    /\ last.op = "verify_otp"
    /\ last.detail \in {"chain", "guardian_is_protected"}
    /\ ActiveLinks # {}

\* C3: after a write to a BlacklistEntry has returned (an insert or an increment,
\* by report_scam or by the auto-extractor), a check of that entry returns the
\* stored is_blacklisted and reports_count, never an older cached result.
C3_FreshAfterWrite ==
    (last.op = "check_blacklist" /\ last.status = 200 /\ last.key \in written)
        => \E e \in blacklist :
              /\ EntryKey(e) = last.key
              /\ last.is_blacklisted
              /\ last.reports_count = e.reports_count

\* C4: the archiver deletes a scan row only after the storage backend's save of the
\* content holding that scan has returned successfully; when the save fails no scan
\* row is deleted and the run reports an error.
C4_WriteBeforeDelete ==
    [][last'.op = "archive" =>
        /\ \A s \in scans \ scans' :
              /\ last'.save = "ok"
              /\ \E i \in 1..Len(last'.content) : last'.content[i].id = s.id
        /\ last'.save \in {"fail_open", "fail_write"} =>
              (scans' = scans /\ last'.result = "error")]_vars

\* a run whose save failed while scans were due
C4_Witness ==
    /\ last.op = "archive"
    /\ last.save \in {"fail_open", "fail_write"}
    /\ \E s \in scans : s.created_at < last.cutoff

\* C5 (as stated): after an archive run that reports success no scan older than the
\* cutoff remains, and every such scan is exactly once in the file the run produced.
C5_Original ==
    [][(last'.op = "archive" /\ last'.result \in {"ok", "empty"}) =>
        /\ \A s \in scans' : ~(s.created_at < last'.cutoff)
        /\ \A s \in scans : s.created_at < last'.cutoff =>
              /\ last'.filename \in DOMAIN files'
              /\ Cardinality({i \in DOMAIN files'[last'.filename] :
                                 files'[last'.filename][i].id = s.id}) = 1]_vars

\* C5 (amended): with the local storage backend, after an archive run that reports
\* success no scan older than the cutoff remains, and every such scan is exactly
\* once in the file the run produced.
C5_ArchivedExactlyOnce ==
    [][(last'.op = "archive" /\ last'.result \in {"ok", "empty"} /\ provider = "LOCAL") =>
        /\ \A s \in scans' : ~(s.created_at < last'.cutoff)
        /\ \A s \in scans : s.created_at < last'.cutoff =>
              /\ last'.filename \in DOMAIN files'
              /\ Cardinality({i \in DOMAIN files'[last'.filename] :
                                 files'[last'.filename][i].id = s.id}) = 1]_vars

\* a successful local run that archived two scans
C5_Witness ==
    /\ last.op = "archive"
    /\ last.result = "ok"
    /\ provider = "LOCAL"
    /\ last.archived_count = 2
    /\ Len(files[last.filename]) = 2

\* C6: when the archive file is written but deleting the rows fails, every selected
\* scan is still in the store and the result is a warning carrying the file's path.
C6_WarningOnDeleteFailure ==
    [][(last'.op = "archive" /\ last'.save = "ok" /\ last'.del = "fail") =>
        /\ scans' = scans
        /\ last'.result = "warning"
        /\ last'.path = <<provider, last'.filename>>
        /\ provider = "LOCAL" => files'[last'.filename] = last'.content]_vars

\* a run that wrote the file and failed to delete the rows
C6_Witness ==
    /\ last.op = "archive"
    /\ last.save = "ok"
    /\ last.del = "fail"
    /\ last.content # <<>>
    /\ \A i \in 1..Len(last.content) : \E s \in scans : s.id = last.content[i].id

\* C7: for every HIGH scan of a user whose alert threshold is met and who has N
\* active guardian links, the fan-out creates exactly N pending GuardianAlerts, one
\* per link, each referencing that scan.
C7_OneAlertPerLink ==
    (last.op = "send_guardian_alerts" /\ last.risk_level = "HIGH") =>
        LET mine == {l \in ActiveLinks : l.user_id = last.user}
        IN  /\ last.alerts_created = Cardinality(mine)
            /\ \A l \in mine :
                  \E a \in alerts :
                     /\ a.scan_id = last.scan_id
                     /\ a.status = "pending"
                     /\ a.guardian_account_id \in {l.guardian_id, l.guardian_account_id}

\* C8: a MEDIUM scan of an analyze request by a user whose threshold is MEDIUM or ALL
\* (a LOW scan when it is ALL) has, once the request and its background task are
\* done, a GuardianAlert for each active link of that user.
C8_AlertsPerThreshold ==
    (/\ last.op \in {"analyze_sms", "analyze_sms_batch", "analyze_message", "manual_scan"}
     /\ last.status = 200
     /\ \/ last.risk_level = "MEDIUM" /\ settings[last.user] \in {"MEDIUM", "ALL"}
        \/ last.risk_level = "LOW" /\ settings[last.user] = "ALL") =>
        \A l \in ActiveLinks :
            l.user_id = last.user =>
                \E a \in alerts :
                   /\ a.scan_id = last.scan_id
                   /\ a.guardian_account_id \in {l.guardian_id, l.guardian_account_id}

\* C9: mark_seen or action on an alert in a terminal status (actioned, dismissed) is
\* rejected and leaves status, action, notes, seen_at and actioned_at as they were.
C9_TerminalIsFinal ==
    [][\A a \in alerts :
          (/\ a.status \in {"actioned", "dismissed"}
           /\ last'.op \in {"mark_seen", "action"}
           /\ last'.alert_id = a.id
           /\ last'.user = a.guardian_account_id) =>
              (last'.status # 200 /\ a \in alerts')]_vars

\* C10: every persisted scan whose level is LOW has a null stored body.
C10_LowHasNoBody ==
    \A s \in scans : s.risk_level = "LOW" => s.message = NoMessage


\* C11: each accepted report of a (value, type) leaves exactly one BlacklistEntry for
\* its normalized value and type, whose reports_count is the count before the report
\* plus one (one for a value never reported); k reports in a row add k.
C11_ReportsAddUp ==
    [][(last'.op = "report_scam" /\ last'.status = 200) =>
        LET before == {e \in blacklist : EntryKey(e) = last'.key}
            after == {e \in blacklist' : EntryKey(e) = last'.key}
            prior == IF before = {} THEN 0
                     ELSE (CHOOSE e \in before : TRUE).reports_count
        IN  /\ Cardinality(after) = 1
            /\ \A e \in after :
                  /\ e.reports_count = prior + 1
                  /\ e.value = normalize_value(last'.value, last'.type)
                  /\ last'.reports_count = e.reports_count]_vars

\* the second report in a row of the same value
C11_Witness ==
    /\ last.op = "report_scam"
    /\ last.status = 200
    /\ last.reports_count = 2
    /\ \E e \in blacklist : EntryKey(e) = last.key /\ e.reports_count = 2

\* C12: every BlacklistEntry has reports_count >= 1 and
\* last_reported_at >= first_reported_at.
C12_EntryWellFormed ==
    \A e \in blacklist :
        e.reports_count >= 1 /\ e.last_reported_at >= e.first_reported_at

\* an entry reported again at a later time
C12_Witness ==
    \E e \in blacklist : e.reports_count = 2 /\ e.last_reported_at > e.first_reported_at

\* C13: a lookup of raw input v with type t, on any of the three lookup paths, finds
\* the BlacklistEntry created from v and t.
C13_LookupFindsEntry ==
    (/\ last.op \in {"check_reputation", "check_blacklist", "manual_scan"}
     /\ last.status = 200
     /\ last.type \in ValidTypes
     /\ \E e \in blacklist :
           e.type = last.type /\ e.value = normalize_value(last.value, last.type)) =>
        last.is_blacklisted

\* C14: normalize(normalize(x, t), t) = normalize(x, t) for t in {phone, url, domain}.
C14_NormalizeIdempotent ==
    [][(last.op = "normalize" /\ last.passes >= 1 /\ last'.op = "normalize") =>
        last'.value = last.value]_vars

\* C15: the second of two checks of the same (value, type) in a row, with no write and
\* no expiry in between, reads no store and returns what the first returned.
C15_SecondFromCache ==
    [][(/\ last.op = "check_blacklist"
        /\ last.status = 200
        /\ last.type \in ValidTypes
        /\ last'.op = "check_blacklist"
        /\ last'.type = last.type
        /\ last'.value = last.value) =>
           /\ ~last'.store_read
           /\ last'.is_blacklisted = last.is_blacklisted
           /\ last'.reports_count = last.reports_count]_vars


\* C16: there is never more than one active link for one (protected, guardian) pair.
C16_OneActivePerPair ==
    \A a \in ActiveLinks, b \in ActiveLinks :
        (a.user_id = b.user_id /\ a.guardian_id = b.guardian_id) => a.id = b.id

\* C17: a verify_otp call made more than 600 seconds (10 minutes of the clock) after
\* the presented code was generated is rejected and creates no active link.
C17_ExpiredCodeRejected ==
    [][(/\ last'.op = "verify_otp"
        /\ \E l \in links : l.user_id = last'.target /\ l.otp_code = last'.code
        /\ \A l \in links :
              (l.user_id = last'.target /\ l.otp_code = last'.code) =>
                  now - l.issued_at > 10) =>
           /\ last'.status # 200
           /\ {l \in links' : l.status = "active"} = ActiveLinks]_vars

\* a code presented after its lifetime
C17_Witness ==
    /\ last.op = "verify_otp"
    /\ last.detail = "expired"
    /\ \E l \in links :
          l.user_id = last.target /\ l.otp_code = last.code /\ now - l.issued_at > 10

\* C18: a rejected verify_otp leaves every link as it was.
C18_RejectedVerifyChangesNothing ==
    [][(last'.op = "verify_otp" /\ last'.status # 200) => links' = links]_vars

\* verify_otp refused while pending and active links exist
C18_Witness ==
    /\ last.op = "verify_otp"
    /\ last.status # 200
    /\ \E l \in links : l.status = "pending" /\ l.user_id = last.target
    /\ ActiveLinks # {}

\* C19: the guardian_alerted flag of a scan and its GuardianAlerts are committed
\* together: a scan is flagged exactly when some alert references it.
C19_FlagWithAlerts ==
    \A s \in scans : s.guardian_alerted <=> (\E a \in alerts : a.scan_id = s.id)

\* C20: every alert that is pending or seen is in the result of its guardian's pending
\* poll, until the guardian actions it.
C20_PendingIsPolled ==
    \A a \in alerts :
        a.status \in {"pending", "seen"} => a.id \in PendingPoll(a.guardian_account_id)

\* C21: the status of an alert only moves forward along pending, seen, actioned; no
\* step returns an alert to an earlier status.
C21_StatusForward ==
    [][\A a \in alerts : \A b \in alerts' :
          a.id = b.id =>
              /\ (a.status = "seen" => b.status \in {"seen", "actioned"})
              /\ (a.status = "actioned" => b.status = "actioned")]_vars

\* an alert seen first and actioned later
C21_Witness ==
    \E a \in alerts : a.status = "actioned" /\ a.seen_at # None /\ a.seen_at < a.actioned_at

\* C22: mark_seen on an alert that is already seen changes nothing: the status stays
\* seen and seen_at keeps the value of the first call.
C22_SecondSeenIsNoOp ==
    [][(/\ last'.op = "mark_seen"
        /\ \E a \in alerts : /\ a.id = last'.alert_id
                              /\ a.guardian_account_id = last'.user
                              /\ a.status = "seen") => alerts' = alerts]_vars

\* mark_seen answered for an alert seen at an earlier time
C22_Witness ==
    /\ last.op = "mark_seen"
    /\ last.status = 200
    /\ \E a \in alerts : /\ a.id = last.alert_id
                          /\ a.status = "seen"
                          /\ a.seen_at < now

\* C23: an alert only ever records an action out of contacted_user, blocked_sender,
\* dismissed and other; a request with another action is rejected and changes nothing.
C23_ActionValidated ==
    \A a \in alerts :
        a.action_taken \in {NoAction, "contacted_user", "blocked_sender", "dismissed", "other"}

C25_VerifiedForcesHigh ==
    (/\ last.op = "manual_scan"
     /\ last.status = 200
     /\ \E e \in blacklist :
           e.is_verified /\ e.value = normalize_value(last.value, e.type)) =>
        last.risk_level = "HIGH"

\* C26: when the pattern matcher returns HIGH with confidence at least 0.85 or LOW
\* with confidence at least 0.90, analyze returns exactly the pattern verdict and
\* calls neither the local model nor the remote model
C26_ConfidentPatternShortCircuits ==
    (/\ last.op = "analyze"
     /\ \/ last.pattern.risk_level = "HIGH" /\ last.pattern.confidence >= 85
        \/ last.pattern.risk_level = "LOW" /\ last.pattern.confidence >= 90)
    => /\ Verdict(last.risk_level, last.scam_type, last.confidence) = last.pattern
       /\ ~last.called_local
       /\ ~last.called_remote

\* a HIGH pattern verdict of confidence 0.88 returned as it is although the detector
\* has both models, the local one sure of LOW and the remote one saying LOW
C26_Witness ==
    /\ last.op = "analyze"
    /\ last.pattern = Verdict("HIGH", "kyc_scam", 88)
    /\ last.local_model /\ last.local.kind = "ok" /\ last.local.risk_level = "LOW"
    /\ last.local.confidence = 95
    /\ last.client /\ last.remote.kind = "json" /\ last.remote.risk_level = "LOW"
    /\ last.risk_level = "HIGH" /\ last.scam_type = "kyc_scam" /\ last.confidence = 88
    /\ ~last.called_local /\ ~last.called_remote

\* C27: whenever analyze consults the remote model and either the pattern verdict or
\* the remote verdict is HIGH, analyze returns HIGH
C27_EitherHighIsHigh ==
    (/\ last.op = "analyze"
     /\ last.called_remote
     /\ \/ last.pattern.risk_level = "HIGH"
        \/ /\ _analyze_with_ai(last.remote) # Raised
           /\ _analyze_with_ai(last.remote).risk_level = "HIGH")
    => last.risk_level = "HIGH"

\* C28: analyze never propagates a stage error: whatever combination of local-model
\* failure, remote transport failure or malformed remote response occurs, it returns
\* a verdict whose level is HIGH, MEDIUM or LOW and whose confidence lies in [0, 1]
C28_AlwaysAVerdict ==
    last.op = "analyze"
    => /\ last.risk_level \in {"HIGH", "MEDIUM", "LOW"}
       /\ last.confidence >= 0
       /\ last.confidence <= 100

\* the headers the regulator assigns, as the tests of TestTraiLogic name them
RegulatedHeaders == {"AD-HDFCBK"}
CriticalBuckets == {"kyc_scam", "otp_scam"}
CriticalMatched(message) ==
    \E i \in 1..Len(message.high) : message.high[i] \in CriticalBuckets

\* C29: for a sender matching the regulated-header pattern whose message carries the
\* suffix -P (or -T), the pattern verdict is LOW with scam_type Marketing/Spam (or
\* Transactional/Info), unless a critical bucket (KYC, OTP theft) matched, in which
\* case the HIGH verdict stands; the same message from a sender that is not a
\* regulated header is not downgraded
C29_RegulatedSuffixDowngrades ==
    last.op = "analyze_quick"
    => /\ (/\ last.sender \in RegulatedHeaders
           /\ last.message.suffix = "-P"
           /\ ~CriticalMatched(last.message))
          => last.risk_level = "LOW" /\ last.scam_type = "Marketing/Spam"
       /\ (/\ last.sender \in RegulatedHeaders
           /\ last.message.suffix = "-T"
           /\ ~CriticalMatched(last.message))
          => last.risk_level = "LOW" /\ last.scam_type = "Transactional/Info"
       /\ (/\ last.sender \in RegulatedHeaders
           /\ last.message.suffix \in {"-P", "-T"}
           /\ CriticalMatched(last.message))
          => last.risk_level = "HIGH"
       /\ (/\ last.sender \notin RegulatedHeaders
           /\ last.message.high # <<>>)
          => last.risk_level = "HIGH"
\* C30: the confidence smoothing function is monotonic non-decreasing over [0, 1]:
\* for all raw scores x <= y, smooth(x) <= smooth(y)
C30_SmoothIsMonotonic ==
    (/\ last.op = "smooth"
     /\ 0 <= last.x /\ last.x <= last.y /\ last.y <= 100)
    => last.smooth_x <= last.smooth_y
\* C31 as stated: when the confidence lies outside the band of the chosen level
\* (HIGH 0.75-1.0, MEDIUM 0.45-0.74, LOW 0-0.44), reconciliation sets it to the
\* nearest edge of that band and records adjusted = true; when it lies inside the
\* band it is returned unchanged with adjusted = false
C31_Original ==
    (last.op = "calibrate" /\ last.raw_risk_level \in {"HIGH", "MEDIUM", "LOW"})
    => LET b == Band(last.raw_risk_level)
       IN  /\ last.raw_confidence < b.min_conf
              => last.confidence = b.min_conf /\ last.adjusted
           /\ last.raw_confidence > b.max_conf
              => last.confidence = b.max_conf /\ last.adjusted
           /\ (b.min_conf <= last.raw_confidence /\ last.raw_confidence <= b.max_conf)
              => last.confidence = last.raw_confidence /\ ~last.adjusted

\* C31 as the code has it: a confidence above the band of the chosen level is set to
\* the upper edge of the band, one below it to the lower edge plus 0.05, both with
\* adjusted = true; one inside the band is returned rounded to two decimals with
\* adjusted = false
C31_ReconciledIntoBand ==
    (last.op = "calibrate" /\ last.raw_risk_level \in {"HIGH", "MEDIUM", "LOW"})
    => LET b == Band(last.raw_risk_level)
       IN  /\ last.raw_confidence < b.min_conf
              => last.confidence = b.min_conf + 25 /\ last.adjusted
           /\ last.raw_confidence > b.max_conf
              => last.confidence = b.max_conf /\ last.adjusted
           /\ (b.min_conf <= last.raw_confidence /\ last.raw_confidence <= b.max_conf)
              => /\ last.confidence - last.raw_confidence \in -2..2
                 /\ last.confidence % 5 = 0
                 /\ ~last.adjusted

\* HIGH with confidence 0.60 reconciled to 0.80
C31_Witness ==
    /\ last.op = "calibrate"
    /\ last.raw_risk_level = "HIGH" /\ last.raw_confidence = 300
    /\ last.confidence = 400 /\ last.adjusted
\* C32: in every reachable state there is at most one TrustedSender row per
\* (user, sender): adding a sender the user already trusts is rejected as a conflict
\* and changes nothing
C32_TrustedUnique ==
    /\ [](\A a \in trusted : \A b \in trusted :
            (a.user_id = b.user_id /\ a.sender = b.sender) => a = b)
    /\ [][(last'.op = "add_trusted" /\ TrustedRows(last'.user, last'.sender) # {})
          => (last'.status = 400 /\ trusted' = trusted)]_vars
\* C33: when two verify_otp calls presenting the same valid code run concurrently, at
\* most one of them succeeds; the other observes an invalid OTP, and exactly one
\* guardian ends up on the resulting link.  A call that succeeds consumes the code,
\* so no call may succeed with a code consumed since it was issued.
C33_OneVerifierWins ==
    [][(last'.op = "verify_otp" /\ last'.status = 200)
       => <<last'.target, last'.code>> \notin consumed]_vars

\* C34: the no-chain rule holds when link requests of different users interleave
\* between their constraint checks and their commits: concurrent verify_otp calls
\* never leave a user who is both the protected user of one active link and the
\* guardian of another
C34_NoChainInterleaved ==
    \A a \in links : \A b \in links :
        (a.status = "active" /\ b.status = "active") => a.user_id # b.guardian_id
\* C35: when a check and a write for the same blacklist key interleave, a reader that
\* read the store before the write committed cannot leave its older result in the
\* cache after the write's invalidation: once both operations have finished, the
\* cache holds either nothing or the post-write result for that key.  A check that
\* caches what it read, with no write for the key still being served, caches what
\* the store holds then.
C35_NoStaleCachedRead ==
    [][(/\ last'.op = "check_blacklist" /\ last'.status = 200 /\ last'.store_read
        /\ \A w \in Workers :
              inflight'[w].pc = "write_commit" => inflight'[w].key # last'.key)
       => redis'[CacheKey(last'.key[2])] = StoreResult(last'.key[2], last'.key[1])]_vars

\* C36: when two reports (or auto-blacklist writes) for the same (value, type)
\* interleave, neither is lost and no second entry is created: afterwards there is
\* exactly one BlacklistEntry for that value and its reports_count has grown by 2.
\* Every write that returns has added one to the count of the single entry.
C36_InterleavedReportsCounted ==
    [][(/\ last'.op \in {"report_scam", "auto_blacklist"}
        /\ last'.status = 200 /\ last'.store_read)
       => /\ Cardinality({e \in blacklist' : EntryKey(e) = last'.key}) = 1
          /\ \A e \in blacklist' : EntryKey(e) = last'.key =>
                /\ \A d \in blacklist : EntryKey(d) = last'.key =>
                      e.reports_count = d.reports_count + 1
                /\ (\A d \in blacklist : EntryKey(d) # last'.key) => e.reports_count = 1]_vars
\* C37: across any number of archive runs, however closely spaced in time or
\* overlapping, every scan the archiver has deleted from the store is still contained
\* in some archive file: a later run never overwrites or replaces the file that holds
\* an earlier run's scans.  Stated for the local backend, the one that keeps files.
C37_ArchivedStaysOnFile ==
    provider = "LOCAL"
    => \A id \in archived :
           \E f \in DOMAIN files : \E i \in 1..Len(files[f]) : files[f][i].id = id
\* C38: from the moment a user blocks a sender until that user unblocks it, every
\* analyze_sms by that user for a message from that sender returns HIGH with
\* confidence 1.0 and is_blocked = true without running detection, whatever scan
\* deletions or archive runs happen in between.  The block is the one the handler
\* looks up, so: only an unblock of that sender by that user ends it, and while it
\* lasts a scan analyze_sms stores for the pair is HIGH and blocked.
C38_BlockedUntilUnblocked ==
    [][/\ \A u \in BlockUsers : \A sender \in Senders :
            (/\ SenderBlocked(u, sender)
             /\ ~(last'.op = "unblock_sender" /\ last'.user = u /\ last'.sender = sender))
            => \E s \in scans' : s.user_id = u /\ s.sender = sender /\ s.is_blocked
       /\ last'.op = "analyze_sms"
            => \A s \in scans' \ scans :
                   SenderBlocked(s.user_id, s.sender)
                   => s.risk_level = "HIGH" /\ s.is_blocked]_vars
\* C39: with remote-model calls for different (text, sender) pairs running
\* concurrently on worker threads, cache insertion and eviction are mutually
\* exclusive: the remote cache never holds more than its maximum of entries and no
\* eviction fails because another call already removed the same oldest entry
C39_CacheBoundedAndEvictionSafe ==
    /\ Len(groq_cache) <= _GROQ_CACHE_MAX_SIZE
    /\ last.op = "groq_call" => last.status # "KeyError"
\* C40: after delete(key) on the cache client has returned, get(key) returns no
\* value until the next set or setex of that key, whichever operations hit a Redis
\* error and were served by the fallback; checked on the get that follows the delete
C40_DeletedKeyReadsEmpty ==
    [][(last.op = "delete" /\ last'.op = "get" /\ last'.key = last.key)
          => last'.value = <<>>]_vars
====
